---------------------------- MODULE Spec2Model ----------------------------
(***************************************************************************)
(* Peripheral I/O layer of the simulator: the Altair hard disk controller  *)
(* (AltairZ80/altairz80_hdsk.c), the PDP-9/15 magnetic tape controller     *)
(* (pdp18b_mt.c), the Telnet terminal multiplexor (sim_tmxr.c) and the     *)
(* port mapping of the Altair serial I/O device (AltairZ80/altairz80_sio.c)*)
(* each as a state machine translated from its source.                     *)
(***************************************************************************)
EXTENDS Integers, Sequences, FiniteSets, TLC

(***************************************************************************)
(* Byte arrays (hdskbuf, the Z80 memory, a disk image file) are kept as a  *)
(* sequence of runs [n, g, o]: n consecutive bytes, byte k of the run      *)
(* being byte o + k of the origin g.  Origins: "Z" a zero byte, "E5" the   *)
(* byte CPM_EMPTY, "M" the memory contents before the first transfer,      *)
(* "F0".."F7" the contents of the image file attached to unit 0..7.  A     *)
(* copy loop of the source moves runs, so no byte value is ever invented.  *)
(***************************************************************************)
IsConst(g) == g \in {"Z", "E5"}

Run(n, g, o) == [n |-> n, g |-> g, o |-> IF IsConst(g) THEN 0 ELSE o]

RECURSIVE RunLen(_)
RunLen(rs) == IF rs = <<>> THEN 0 ELSE Head(rs).n + RunLen(Tail(rs))

RECURSIVE Take(_, _)
Take(rs, n) ==
    IF n <= 0 \/ rs = <<>> THEN <<>>
    ELSE LET r == Head(rs) IN
         IF r.n <= n THEN <<r>> \o Take(Tail(rs), n - r.n)
         ELSE <<Run(n, r.g, r.o)>>

RECURSIVE Drop(_, _)
Drop(rs, n) ==
    IF n <= 0 \/ rs = <<>> THEN rs
    ELSE LET r == Head(rs) IN
         IF r.n <= n THEN Drop(Tail(rs), n - r.n)
         ELSE <<Run(r.n - n, r.g, r.o + n)>> \o Tail(rs)

Slice(rs, from, n) == Take(Drop(rs, from), n)

RECURSIVE Norm(_)
Norm(rs) ==
    IF Len(rs) < 2 THEN (IF rs # <<>> /\ Head(rs).n = 0 THEN <<>> ELSE rs)
    ELSE LET a == rs[1]
             b == rs[2]
         IN  IF a.n = 0 THEN Norm(Tail(rs))
             ELSE IF b.n = 0 THEN Norm(<<a>> \o Tail(Tail(rs)))
             ELSE IF a.g = b.g /\ (IsConst(a.g) \/ b.o = a.o + a.n)
                  THEN Norm(<<Run(a.n + b.n, a.g, a.o)>> \o Tail(Tail(rs)))
                  ELSE <<a>> \o Norm(Tail(rs))

\* bytes at..at+RunLen(new)-1 of rs replaced by new (rs is long enough)
Put(rs, at, new) ==
    Norm(Take(rs, at) \o new \o Drop(rs, at + RunLen(new)))

Fill(n, g) == IF n <= 0 THEN <<>> ELSE <<Run(n, g, 0)>>

--------------------------------------------------------------------------
(* altairz80_hdsk.c *)

HDSK_MAX_SECTOR_SIZE == 1024
HDSK_CAPACITY == 2048 * 32 * 128
HDSK_NUMBER == 8
CPM_OK == 0
CPM_ERROR == 1
HDSK_NONE == 0
HDSK_RESET == 1
HDSK_READ == 2
HDSK_WRITE == 3
HDSK_PARAM == 4
Z80_ADDRMASK == 65535
Z80_MEMBYTES == 65536

dpb == <<
  [name |-> "HDSK",   capac |-> HDSK_CAPACITY, spt |-> 32, bsh |-> 5, blm |-> 31,
   exm |-> 1, dsm |-> 2041, drm |-> 1023, al0 |-> 255, al1 |-> 0, cks |-> 32768,
   off |-> 6, psh |-> 0, phm |-> 0],
  [name |-> "EZ80FL", capac |-> 131072, spt |-> 32, bsh |-> 3, blm |-> 7,
   exm |-> 0, dsm |-> 127, drm |-> 62, al0 |-> 192, al1 |-> 0, cks |-> 0,
   off |-> 0, psh |-> 2, phm |-> 3],
  [name |-> "P112",   capac |-> 1474560, spt |-> 72, bsh |-> 4, blm |-> 15,
   exm |-> 0, dsm |-> 710, drm |-> 254, al0 |-> 240, al1 |-> 0, cks |-> 0,
   off |-> 2, psh |-> 2, phm |-> 3],
  [name |-> "SU720",  capac |-> 737280, spt |-> 36, bsh |-> 4, blm |-> 15,
   exm |-> 0, dsm |-> 354, drm |-> 126, al0 |-> 192, al1 |-> 0, cks |-> 32,
   off |-> 2, psh |-> 2, phm |-> 3] >>

Pow2(k) == 2 ^ k

VARIABLES
    hdskLastCommand,      \* pending command
    hdskCommandPosition,  \* parameter bytes received
    paramcount,           \* GET-PARAMETERS result cursor
    selectedDisk, selectedSector, selectedTrack, selectedDMA,
    hdsk_unit,            \* unit -> [att, wlk, capac, u3, u4, u5, u6, file]
    hdskbuf,              \* sector buffer, HDSK_MAX_SECTOR_SIZE bytes
    MZ,                   \* Z80 memory, Z80_MEMBYTES bytes
    hdskRet,              \* value returned by the last hdsk_io call
    hdskIO,               \* file operations made by the last hdsk_io call
    hdskCall,             \* the last call: [op, data, cmd, pos] (cmd, pos on entry)
    hdskXfers,            \* READ/WRITE transfers started so far
    hdskResets            \* bytes of the reset sequence written so far

hdskVars == << hdskLastCommand, hdskCommandPosition, paramcount, selectedDisk,
               selectedSector, selectedTrack, selectedDMA, hdsk_unit, hdskbuf,
               MZ, hdskRet, hdskIO, hdskCall, hdskXfers, hdskResets >>

HdskUnits == 0 .. (HDSK_NUMBER - 1)

GenFile(u) == << "F0", "F1", "F2", "F3", "F4", "F5", "F6", "F7" >>[u + 1]

\* UDATA (NULL, UNIT_FIX + UNIT_ATTABLE + ..., HDSK_CAPACITY): u3..u6 are 0
HdskUnitInit ==
    [att |-> FALSE, wlk |-> FALSE, capac |-> HDSK_CAPACITY,
     u3 |-> 0, u4 |-> 0, u5 |-> 0, u6 |-> 0, file |-> <<>>]

HdskInit ==
    /\ hdskLastCommand = HDSK_NONE
    /\ hdskCommandPosition = 0
    /\ paramcount = 0
    /\ selectedDisk = 0
    /\ selectedSector = 0
    /\ selectedTrack = 0
    /\ selectedDMA = 0
    /\ hdsk_unit = [u \in HdskUnits |-> HdskUnitInit]
    /\ hdskbuf = Fill(HDSK_MAX_SECTOR_SIZE, "Z")
    /\ MZ = <<Run(Z80_MEMBYTES, "M", 0)>>
    /\ hdskRet = 0
    /\ hdskIO = <<>>
    /\ hdskCall = [op |-> "init", data |-> 0, cmd |-> HDSK_NONE, pos |-> 0]
    /\ hdskXfers = 0
    /\ hdskResets = 0


\* hdsk_attach: attach_unit opens the image; flen is its size in bytes
hdsk_attach(u, flen) ==
    LET a0 == [hdsk_unit[u] EXCEPT !.att = TRUE, !.file = Fill(flen, GenFile(u))]
    IN  IF flen = 0 THEN a0                        \* new disk image: done
        ELSE
        LET match == {i \in 1 .. Len(dpb) : dpb[i].capac = flen}
            first == CHOOSE i \in match : \A j \in match : i <= j
            a1 == IF match = {}
                  THEN [a0 EXCEPT !.u6 = 0, !.capac = dpb[1].capac, !.wlk = TRUE]
                  ELSE [a0 EXCEPT !.u6 = first - 1, !.capac = flen]
            d == dpb[a1.u6 + 1]
            size == 128 * Pow2(d.psh)
            spt == d.spt \div Pow2(d.psh)
        IN  [a1 EXCEPT !.u5 = size, !.u4 = spt, !.u3 = a1.capac \div (spt * size)]

\* memory bytes (addr + i) & ADDRMASK, i = 0 .. n-1 (GetBYTEWrapper)
MemGet(mem, addr, n) ==
    IF addr + n <= Z80_MEMBYTES THEN Slice(mem, addr, n)
    ELSE Norm(Slice(mem, addr, Z80_MEMBYTES - addr)
              \o Slice(mem, 0, n - (Z80_MEMBYTES - addr)))

\* memory bytes (addr + i) & ADDRMASK set to the bytes of rs (PutBYTEWrapper)
MemPut(mem, addr, rs) ==
    IF addr + RunLen(rs) <= Z80_MEMBYTES THEN Put(mem, addr, rs)
    ELSE Put(Put(mem, addr, Take(rs, Z80_MEMBYTES - addr)),
             0, Drop(rs, Z80_MEMBYTES - addr))

\* fwrite of the bytes rs at file offset off: a seek past the end leaves a
\* hole of zero bytes
FileWrite(file, off, rs) ==
    LET len == RunLen(file) IN
    IF off >= len THEN Norm(file \o Fill(off - len, "Z") \o rs)
    ELSE IF off + RunLen(rs) <= len THEN Put(file, off, rs)
    ELSE Norm(Take(file, off) \o rs)

\* checkParameters without the UNIT_ATT test
checkParameters_noatt(gs, gt) ==
    LET inRange == selectedDisk >= 0 /\ selectedDisk < HDSK_NUMBER
        disk == IF inRange THEN selectedDisk ELSE 0
        spt == IF inRange THEN hdsk_unit[selectedDisk].u4 ELSE gs
        mxt == IF inRange THEN hdsk_unit[selectedDisk].u3 ELSE gt
    IN  [ok |-> TRUE, disk |-> disk,
         sector |-> IF selectedSector < 0 \/ selectedSector >= spt
                    THEN 0 ELSE selectedSector,
         track |-> IF selectedTrack < 0 \/ selectedTrack >= mxt
                   THEN 0 ELSE selectedTrack,
         dma |-> selectedDMA % (Z80_ADDRMASK + 1)]

\* checkParameters: gs, gt are what uptr->HDSK_SECTORS_PER_TRACK and
\* uptr->HDSK_MAX_TRACKS read when uptr, taken from selectedDisk before the
\* repair, points past hdsk_unit[]
checkParameters(gs, gt) ==
    LET inRange == selectedDisk >= 0 /\ selectedDisk < HDSK_NUMBER
        disk == IF inRange THEN selectedDisk ELSE 0
        spt == IF inRange THEN hdsk_unit[selectedDisk].u4 ELSE gs
        mxt == IF inRange THEN hdsk_unit[selectedDisk].u3 ELSE gt
    IN  IF ~hdsk_unit[disk].att
        THEN [ok |-> FALSE, disk |-> disk, sector |-> selectedSector,
              track |-> selectedTrack, dma |-> selectedDMA]
        ELSE [ok |-> TRUE, disk |-> disk,
              sector |-> IF selectedSector < 0 \/ selectedSector >= spt
                         THEN 0 ELSE selectedSector,
              track |-> IF selectedTrack < 0 \/ selectedTrack >= mxt
                        THEN 0 ELSE selectedTrack,
              dma |-> selectedDMA % (Z80_ADDRMASK + 1)]

\* the offset with the track stride taken for the sector stride
SeekOffset_stride(cp) ==
    LET up == hdsk_unit[cp.disk] IN
    (up.u4 * up.u5) * cp.sector + (up.u5 * cp.track)

\* the file offset doSeek hands to fseek
SeekOffset(cp) ==
    LET up == hdsk_unit[cp.disk] IN
    (up.u4 * up.u5) * cp.track + (up.u5 * cp.sector)

IoRec(op, u, off, n) == [op |-> op, unit |-> u, off |-> off, n |-> n]

doSeek(cp) ==
    [ret |-> IF SeekOffset(cp) < 0 THEN CPM_ERROR ELSE CPM_OK,
     io |-> <<IoRec("seek", cp.disk, SeekOffset(cp), 0)>>]

Unchanged(cp, ret, io) ==
    [ret |-> ret, buf |-> hdskbuf, mem |-> MZ, file |-> hdsk_unit[cp.disk].file,
     io |-> io]

\* doRead copying the buffer to memory after a short read as well
doRead_copyshort(cp) ==
    LET up == hdsk_unit[cp.disk]
        off == SeekOffset(cp)
        n == up.u5
        io == doSeek(cp).io \o <<IoRec("read", cp.disk, off, n)>>
        full == n > 0 /\ off + n <= RunLen(up.file)
        data == IF full THEN Slice(up.file, off, n) ELSE Fill(n, "E5")
    IN  [ret |-> CPM_OK, buf |-> Put(hdskbuf, 0, data),
         mem |-> MemPut(MZ, cp.dma, data), file |-> up.file, io |-> io]

doRead(cp) ==
    LET up == hdsk_unit[cp.disk]
        sk == doSeek(cp)
        off == SeekOffset(cp)
        n == up.u5
        full == n > 0 /\ off + n <= RunLen(up.file)     \* fread(...) = 1
        data == Slice(up.file, off, n)
        io == sk.io \o <<IoRec("read", cp.disk, off, n)>>
    IN  IF sk.ret # CPM_OK THEN Unchanged(cp, CPM_ERROR, sk.io)
        ELSE IF ~full
        THEN [ret |-> CPM_OK, buf |-> Put(hdskbuf, 0, Fill(n, "E5")), mem |-> MZ,
              file |-> up.file, io |-> io]
        ELSE [ret |-> CPM_OK, buf |-> Put(hdskbuf, 0, data),
              mem |-> MemPut(MZ, cp.dma, data), file |-> up.file, io |-> io]

\* doWrite without the write-lock test
doWrite_nolock(cp) ==
    LET up == hdsk_unit[cp.disk]
        off == SeekOffset(cp)
        n == up.u5
        data == MemGet(MZ, cp.dma, n)
        io == doSeek(cp).io \o <<IoRec("write", cp.disk, off, n)>>
    IN  IF n = 0 THEN Unchanged(cp, CPM_ERROR, io)
        ELSE [ret |-> CPM_OK, buf |-> Put(hdskbuf, 0, data), mem |-> MZ,
              file |-> FileWrite(up.file, off, data), io |-> io]

doWrite(cp) ==
    LET up == hdsk_unit[cp.disk]
        sk == doSeek(cp)
        off == SeekOffset(cp)
        n == up.u5
        data == MemGet(MZ, cp.dma, n)
        io == sk.io \o <<IoRec("write", cp.disk, off, n)>>
    IN  IF up.wlk THEN Unchanged(cp, CPM_ERROR, <<>>)
        ELSE IF sk.ret # CPM_OK THEN Unchanged(cp, CPM_ERROR, sk.io)
        ELSE IF n = 0                                   \* fwrite(...) = 0
        THEN Unchanged(cp, CPM_ERROR, io)
        ELSE [ret |-> CPM_OK, buf |-> Put(hdskbuf, 0, data), mem |-> MZ,
              file |-> FileWrite(up.file, off, data), io |-> io]

\* params[] with the 16-bit fields high byte first
DpbBytes_bigendian(d) ==
    << (d.spt \div 256) % 256, d.spt % 256, d.bsh, d.blm, d.exm,
       (d.dsm \div 256) % 256, d.dsm % 256, (d.drm \div 256) % 256, d.drm % 256,
       d.al0, d.al1, (d.cks \div 256) % 256, d.cks % 256,
       (d.off \div 256) % 256, d.off % 256, d.psh, d.phm >>

\* the 17 bytes params[] of hdsk_in for descriptor d
DpbBytes(d) ==
    << d.spt % 256, (d.spt \div 256) % 256, d.bsh, d.blm, d.exm,
       d.dsm % 256, (d.dsm \div 256) % 256, d.drm % 256, (d.drm \div 256) % 256,
       d.al0, d.al1, d.cks % 256, (d.cks \div 256) % 256,
       d.off % 256, (d.off \div 256) % 256, d.psh, d.phm >>

Call(op, data) ==
    [op |-> op, data |-> data, cmd |-> hdskLastCommand, pos |-> hdskCommandPosition]

\* hdsk_io(port, 1, data), a byte after the sixth parameter taken as a command
hdsk_out_nextcmd(data) ==
    /\ IF hdskLastCommand = HDSK_PARAM
       THEN /\ paramcount' = 0
            /\ selectedDisk' = data
            /\ UNCHANGED << hdskLastCommand, hdskCommandPosition, selectedSector,
                            selectedTrack, selectedDMA >>
       ELSE IF hdskLastCommand \in {HDSK_READ, HDSK_WRITE}
       THEN /\ selectedDisk' = IF hdskCommandPosition = 0 THEN data ELSE selectedDisk
            /\ selectedSector' = IF hdskCommandPosition = 1 THEN data ELSE selectedSector
            /\ selectedTrack' = IF hdskCommandPosition = 2 THEN data
                                ELSE IF hdskCommandPosition = 3
                                THEN selectedTrack + data * 256
                                ELSE selectedTrack
            /\ selectedDMA' = IF hdskCommandPosition = 4 THEN data
                              ELSE IF hdskCommandPosition = 5
                              THEN selectedDMA + data * 256
                              ELSE selectedDMA
            /\ hdskCommandPosition' = IF hdskCommandPosition \in 0 .. 5
                                      THEN hdskCommandPosition + 1 ELSE 0
            /\ hdskLastCommand' = IF hdskCommandPosition \in 0 .. 5
                                  THEN hdskLastCommand ELSE data
            /\ UNCHANGED paramcount
       ELSE /\ hdskLastCommand' = data
            /\ hdskCommandPosition' = 0
            /\ UNCHANGED << paramcount, selectedDisk, selectedSector,
                            selectedTrack, selectedDMA >>
    /\ hdskRet' = 0
    /\ hdskIO' = <<>>
    /\ hdskCall' = Call("out", data)
    /\ UNCHANGED << hdsk_unit, hdskbuf, MZ >>

\* hdsk_io(port, 1, data)
hdsk_out(data) ==
    /\ IF hdskLastCommand = HDSK_PARAM
       THEN /\ paramcount' = 0
            /\ selectedDisk' = data
            /\ UNCHANGED << hdskLastCommand, hdskCommandPosition, selectedSector,
                            selectedTrack, selectedDMA >>
       ELSE IF hdskLastCommand \in {HDSK_READ, HDSK_WRITE}
       THEN /\ selectedDisk' = IF hdskCommandPosition = 0 THEN data ELSE selectedDisk
            /\ selectedSector' = IF hdskCommandPosition = 1 THEN data ELSE selectedSector
            /\ selectedTrack' = IF hdskCommandPosition = 2 THEN data
                                ELSE IF hdskCommandPosition = 3
                                THEN selectedTrack + data * 256
                                ELSE selectedTrack
            /\ selectedDMA' = IF hdskCommandPosition = 4 THEN data
                              ELSE IF hdskCommandPosition = 5
                              THEN selectedDMA + data * 256
                              ELSE selectedDMA
            /\ hdskCommandPosition' = IF hdskCommandPosition \in 0 .. 5
                                      THEN hdskCommandPosition + 1 ELSE 0
            /\ hdskLastCommand' = IF hdskCommandPosition \in 0 .. 5
                                  THEN hdskLastCommand ELSE HDSK_NONE
            /\ UNCHANGED paramcount
       ELSE /\ hdskLastCommand' = data
            /\ hdskCommandPosition' = 0
            /\ UNCHANGED << paramcount, selectedDisk, selectedSector,
                            selectedTrack, selectedDMA >>
    /\ hdskRet' = 0
    /\ hdskIO' = <<>>
    /\ hdskCall' = Call("out", data)
    /\ UNCHANGED << hdsk_unit, hdskbuf, MZ >>

\* hdsk_in, READ/WRITE with all six parameter bytes received
hdsk_in_transfer(gs, gt) ==
    LET cp == checkParameters(gs, gt)
        r == IF ~cp.ok THEN Unchanged(cp, CPM_ERROR, <<>>)
             ELSE IF hdskLastCommand = HDSK_READ THEN doRead(cp)
             ELSE doWrite(cp)
    IN  /\ selectedDisk' = cp.disk
        /\ selectedSector' = cp.sector
        /\ selectedTrack' = cp.track
        /\ selectedDMA' = cp.dma
        /\ hdskLastCommand' = HDSK_NONE
        /\ hdskCommandPosition' = 0
        /\ hdskRet' = r.ret
        /\ hdskIO' = r.io
        /\ hdskbuf' = r.buf
        /\ MZ' = r.mem
        /\ hdsk_unit' = [hdsk_unit EXCEPT ![cp.disk].file = r.file]
        /\ UNCHANGED paramcount

\* hdsk_in, GET-PARAMETERS pending, the cursor rewound with the last byte
hdsk_in_param_rewind(gb) ==
    LET pc == paramcount + 1
        inRange == selectedDisk >= 0 /\ selectedDisk < HDSK_NUMBER
        up == hdsk_unit[selectedDisk]
    IN  /\ paramcount' = IF pc >= 19 THEN 0 ELSE pc
        /\ hdskLastCommand' = IF pc >= 19 THEN HDSK_NONE ELSE hdskLastCommand
        /\ hdskRet' = IF pc > 19 THEN CPM_OK
                      ELSE IF ~inRange THEN gb
                      ELSE IF pc <= 17 THEN DpbBytes(dpb[up.u6 + 1])[pc]
                      ELSE IF pc = 18 THEN up.u5 % 256
                      ELSE up.u5 \div 256
        /\ hdskIO' = <<>>
        /\ UNCHANGED << hdskCommandPosition, selectedDisk, selectedSector,
                        selectedTrack, selectedDMA, hdsk_unit, hdskbuf, MZ >>

\* hdsk_in, GET-PARAMETERS pending: gb is the byte read through uptr when
\* selectedDisk is no index of hdsk_unit[]
hdsk_in_param(gb) ==
    LET pc == paramcount + 1
        inRange == selectedDisk >= 0 /\ selectedDisk < HDSK_NUMBER
        up == hdsk_unit[selectedDisk]
    IN  /\ paramcount' = pc
        /\ hdskLastCommand' = IF pc >= 19 THEN HDSK_NONE ELSE hdskLastCommand
        /\ hdskRet' = IF pc > 19 THEN CPM_OK
                      ELSE IF ~inRange THEN gb
                      ELSE IF pc <= 17 THEN DpbBytes(dpb[up.u6 + 1])[pc]
                      ELSE IF pc = 18 THEN up.u5 % 256
                      ELSE up.u5 \div 256
        /\ hdskIO' = <<>>
        /\ UNCHANGED << hdskCommandPosition, selectedDisk, selectedSector,
                        selectedTrack, selectedDMA, hdsk_unit, hdskbuf, MZ >>

\* hdsk_io(port, 0, data), a read out of order ending the command
hdsk_in_abort(gs, gt, gb) ==
    /\ IF hdskCommandPosition = 6 /\ hdskLastCommand \in {HDSK_READ, HDSK_WRITE}
       THEN hdsk_in_transfer(gs, gt)
       ELSE IF hdskLastCommand = HDSK_PARAM
       THEN hdsk_in_param(gb)
       ELSE /\ hdskRet' = CPM_OK
            /\ hdskIO' = <<>>
            /\ hdskLastCommand' = HDSK_NONE
            /\ hdskCommandPosition' = 0
            /\ UNCHANGED << paramcount, selectedDisk, selectedSector, selectedTrack,
                            selectedDMA, hdsk_unit, hdskbuf, MZ >>
    /\ hdskCall' = Call("in", 0)

\* hdsk_io(port, 0, data)
hdsk_in(gs, gt, gb) ==
    /\ IF hdskCommandPosition = 6 /\ hdskLastCommand \in {HDSK_READ, HDSK_WRITE}
       THEN hdsk_in_transfer(gs, gt)
       ELSE IF hdskLastCommand = HDSK_PARAM
       THEN hdsk_in_param(gb)
       ELSE /\ hdskRet' = CPM_OK
            /\ hdskIO' = <<>>
            /\ UNCHANGED << hdskLastCommand, hdskCommandPosition, paramcount,
                            selectedDisk, selectedSector, selectedTrack,
                            selectedDMA, hdsk_unit, hdskbuf, MZ >>
    /\ hdskCall' = Call("in", 0)

\* SET HDSKn WRTLCK / WRTENB (hdsk_mod)
hdsk_set_wlk(u, b) == [hdsk_unit EXCEPT ![u].wlk = b]

\* detach_unit (hdsk_dev names no detach routine): the image is closed
hdsk_detach(u) == [hdsk_unit EXCEPT ![u].att = FALSE, ![u].file = <<>>]

--------------------------------------------------------------------------
(***************************************************************************)
(* Magnetic tape controller (pdp18b_mt.c).  Words are 18 bits; a tape      *)
(* image is the sequence of its bytes; the PDP memory M is kept as the     *)
(* function from the addresses holding a non-zero word to that word; a     *)
(* status word (mt_sta, USTAT) is kept as the set of its bits that are 1,  *)
(* each bit named by its value, so that & is the intersection and | the    *)
(* union.  The bits of STA_CLR are never set and have no name here.        *)
(***************************************************************************)
\* bit k (from 0) of x, as 0 or 1
BitOf(x, k) == (x \div (2 ^ k)) % 2

\* a & b and a | b, six bits at a time
And6(a, b) ==
    BitOf(a, 0) * BitOf(b, 0) + 2 * BitOf(a, 1) * BitOf(b, 1)
    + 4 * BitOf(a, 2) * BitOf(b, 2) + 8 * BitOf(a, 3) * BitOf(b, 3)
    + 16 * BitOf(a, 4) * BitOf(b, 4) + 32 * BitOf(a, 5) * BitOf(b, 5)

RECURSIVE BitAnd(_, _)
BitAnd(a, b) ==
    IF a = 0 \/ b = 0 THEN 0
    ELSE And6(a % 64, b % 64) + 64 * BitAnd(a \div 64, b \div 64)

RECURSIVE BitOr(_, _)
BitOr(a, b) ==
    IF a = 0 THEN b
    ELSE IF b = 0 THEN a
    ELSE (a % 64) + (b % 64) - And6(a % 64, b % 64) + 64 * BitOr(a \div 64, b \div 64)

\* bit b (a power of two) of the word x
Bit(x, b) == (x \div b) % 2 = 1

MT_NUMDR == 8
DBSIZE == 4096
DBMASK == DBSIZE - 1
MT_WC == 26
MT_MA == 27
WORDMASK == 262143

CU_DUMP == 8192
CU_ERASE == 4096
FN_NOP == 0
FN_REWIND == 1
FN_READ == 2
FN_CMPARE == 3
FN_WRITE == 4
FN_WREOF == 5
FN_SPACEF == 6
FN_SPACER == 7
CU_IE == 256
TY_9TK == 3
GET_UNIT(x) == (x \div 32768) % 8
GET_CMD(x) == (x \div 512) % 8
GET_TYPE(x) == (x \div 64) % 4
PACKED(x) == Bit(x, CU_DUMP) \/ GET_TYPE(x) # TY_9TK

STA_ERR == 131072
STA_REW == 65536
STA_BOT == 32768
STA_ILL == 16384
STA_PAR == 8192
STA_EOF == 4096
STA_EOT == 2048
STA_CPE == 1024
STA_RLE == 512
STA_DLT == 256
STA_BAD == 128
STA_DON == 64
STA_DYN == {STA_REW, STA_BOT, STA_EOF, STA_EOT}
STA_EFLGS == {STA_BOT, STA_ILL, STA_PAR, STA_EOF, STA_EOT, STA_CPE, STA_RLE,
              STA_DLT, STA_BAD}

\* pdp18b_defs.h: the largest memory, and the memory the CPU is configured with
ADDRMASK == 131071
MEMSIZE == 131072
MEM_ADDR_OK(x) == x < MEMSIZE

VARIABLES
    mt_cu,        \* command/unit register
    mt_sta,       \* status register
    int_req,      \* the INT_MTA bit of the interrupt requests
    mt_unit,      \* unit -> [att, wlk, USTAT, pos, active, file]
    M,            \* PDP memory, M[MT_WC] and M[MT_MA] included
    mtEv,         \* the last operation on the controller and what it did
    mtWritten,    \* the record the last WRITE put on tape, while it is intact
    mtGo,         \* unit -> mt_cu at the last MTGO that started the unit
    mtScript      \* what the program and the operator still have to do

mtVars == << mt_cu, mt_sta, int_req, mt_unit, M, mtEv, mtWritten, mtGo, mtScript >>

MtUnits == 0 .. (MT_NUMDR - 1)

MemRd(m, a) == IF a \in DOMAIN m THEN m[a] ELSE 0

MemWr(m, a, v) ==
    IF v = 0 THEN [x \in DOMAIN m \ {a} |-> m[x]]
    ELSE [x \in DOMAIN m \cup {a} |-> IF x = a THEN v ELSE m[x]]

\* UDATA (&mt_svc, UNIT_ATTABLE + UNIT_DISABLE, 0); UNUM is the index
MtUnitInit ==
    [att |-> FALSE, wlk |-> FALSE, USTAT |-> {}, pos |-> 0, active |-> FALSE,
     file |-> <<>>]

NoRecord == [unit |-> -1, pos |-> 0, wc |-> 0, packed |-> FALSE, words |-> <<>>]

\* what an operation reports: op the kind, unit the unit it acted on, pulse
\* and AC of an IOT, ret the value returned, f the function a service ran,
\* how the place where it left the function, words the words moved (the
\* passes of a spacing loop), stores the memory stores made, and mt_cu,
\* mt_sta, M[MT_WC], the unit and mtWritten as they were on entry
Ev(op, unit, pulse, AC, ret, f, how, words, stores, cu0, sta0, wc0, u0, w0) ==
    [op |-> op, unit |-> unit, pulse |-> pulse, AC |-> AC, ret |-> ret, f |-> f,
     how |-> how, words |-> words, stores |-> stores,
     cu0 |-> cu0, sta0 |-> sta0, wc0 |-> wc0, u0 |-> u0, w0 |-> w0]

\* the registers after the power-up mt_reset
MtRegsInit ==
    /\ mt_cu = 0
    /\ mt_sta = {}
    /\ int_req = FALSE
    /\ mt_unit = [u \in MtUnits |-> MtUnitInit]
    /\ M = [x \in {} |-> 0]
    /\ mtEv = Ev("init", 0, 0, 0, [skip |-> FALSE, val |-> 0, stat |-> "SCPE_OK"], 0,
                 "", <<>>, <<>>, 0, {}, 0, MtUnitInit, NoRecord)
    /\ mtWritten = NoRecord
    /\ mtGo = [u \in MtUnits |-> 0]

\* the controller while one routine runs: the registers, the units, memory
MtState == [cu |-> mt_cu, sta |-> mt_sta, int |-> int_req, units |-> mt_unit, M |-> M]

sim_is_active(S, u) == S.units[u].active

mt_updcsta(S, u, new) ==
    LET sta1 == ((S.sta \ (STA_DYN \cup {STA_ERR}))
                 \cup (S.units[u].USTAT \cap STA_DYN)) \cup new
        sta2 == IF sta1 \cap STA_EFLGS # {} THEN sta1 \cup {STA_ERR} ELSE sta1
    IN  [S EXCEPT !.sta = sta2,
                  !.int = (sta2 \cap {STA_ERR, STA_DON} # {}
                           /\ ~Bit(S.cu, CU_IE))]

mt_busy(S) ==
    \E u \in MtUnits :
        sim_is_active(S, u) /\ STA_REW \notin S.units[u].USTAT

\* the test of MTGO that refuses the function
mt_illegal_nobusy(S, u) ==
    LET f == GET_CMD(S.cu)
        up == S.units[u]
    IN  \/ sim_is_active(S, u)
        \/ (f \in {FN_SPACER, FN_REWIND} /\ up.pos = 0)
        \/ (f \in {FN_WRITE, FN_WREOF} /\ up.wlk)
        \/ ~up.att
        \/ f = FN_NOP

mt_illegal(S, u) ==
    LET f == GET_CMD(S.cu)
        up == S.units[u]
    IN  \/ mt_busy(S)
        \/ sim_is_active(S, u)
        \/ (f \in {FN_SPACER, FN_REWIND} /\ up.pos = 0)
        \/ (f \in {FN_WRITE, FN_WREOF} /\ up.wlk)
        \/ ~up.att
        \/ f = FN_NOP

\* MTGO that forgets to schedule a rewind
mt_go_norewind(S, u) ==
    LET f == GET_CMD(S.cu) IN
    IF mt_illegal(S, u)
    THEN [S EXCEPT !.sta = S.sta \cup {STA_ILL}]
    ELSE IF f = FN_REWIND
         THEN [S EXCEPT !.units[u].USTAT = {STA_REW}]
         ELSE [S EXCEPT !.sta = {}, !.units[u].USTAT = {}, !.units[u].active = TRUE]

mt_go(S, u) ==
    LET f == GET_CMD(S.cu) IN
    IF mt_illegal(S, u)
    THEN [S EXCEPT !.sta = S.sta \cup {STA_ILL}]
    ELSE IF f = FN_REWIND
         THEN [S EXCEPT !.units[u].USTAT = {STA_REW}, !.units[u].active = TRUE]
         ELSE [S EXCEPT !.sta = {}, !.units[u].USTAT = {}, !.units[u].active = TRUE]

\* the word whose bits that are 1 are those of s
RECURSIVE Word(_)
Word(s) == IF s = {} THEN 0 ELSE LET b == CHOOSE x \in s : TRUE IN b + Word(s \ {b})

Skip(b, v) == [skip |-> b, val |-> v, stat |-> "SCPE_OK"]

\* int32 mt (int32 pulse, int32 AC): the state and the value returned
mt(S, pulse, AC) ==
    LET u == GET_UNIT(S.cu)
        S1 == mt_updcsta(S, u, {})
    IN
    IF pulse = 1 THEN [S |-> S1, ret |-> Skip(~sim_is_active(S1, u), AC)]
    ELSE IF pulse = 17 THEN [S |-> S1, ret |-> Skip(~mt_busy(S1), AC)]
    ELSE IF pulse = 33
    THEN [S |-> S1, ret |-> Skip(S1.sta \cap {STA_ERR, STA_DON} # {}, AC)]
    ELSE IF pulse = 2 THEN [S |-> S1, ret |-> Skip(FALSE, BitAnd(S1.cu, 262080))]
    ELSE IF pulse = 34 THEN [S |-> S1, ret |-> Skip(FALSE, Word(S1.sta))]
    ELSE
    LET S2 == IF BitAnd(pulse, 50) = 18
              THEN LET c == IF ~mt_busy(S1) THEN [S1 EXCEPT !.cu = 0, !.sta = {}]
                            ELSE S1
                   IN  [c EXCEPT !.sta = c.sta \ {STA_ERR, STA_DON}]
              ELSE S1
        S3 == IF BitAnd(pulse, 52) = 20
              THEN [S2 EXCEPT !.cu = BitOr(BitAnd(S2.cu, 258496),
                                           BitAnd(AC, 262080))]
              ELSE S2
        S4 == IF pulse = 4 THEN mt_go(S3, u) ELSE S3
    IN  [S |-> mt_updcsta(S4, GET_UNIT(S4.cu), {}), ret |-> Skip(FALSE, AC)]

(* The backing file *)
LE32(n) == << n % 256, (n \div 256) % 256, (n \div 65536) % 256,
              (n \div 16777216) % 256 >>

\* fxread of one t_mtrlnt at offset off: end of file unless 4 bytes are there
AtEof(file, off) == off < 0 \/ off + 4 > Len(file)

\* tbc == 0 for the t_mtrlnt at offset off
TbcZero(file, off) == \A k \in 1 .. 4 : file[off + k] = 0

\* MTRL (tbc) for the t_mtrlnt at offset off: the little-endian length with
\* its error flag, the high bit, removed
MTRL(file, off) ==
    file[off + 1] + 256 * file[off + 2] + 65536 * file[off + 3]
    + 16777216 * (file[off + 4] % 128)

EvenUp(n) == 2 * ((n + 1) \div 2)

\* fseek to off and fxwrite of bytes: a gap after the end reads as zeros
WriteAt(file, off, bytes) ==
    LET n == IF off + Len(bytes) > Len(file) THEN off + Len(bytes) ELSE Len(file)
    IN  [k \in 1 .. n |->
            IF k > off /\ k <= off + Len(bytes) THEN bytes[k - off]
            ELSE IF k <= Len(file) THEN file[k]
            ELSE 0]

\* the word count a READ, COMPARE or WRITE takes from M[MT_WC]
MtWords(m) == DBSIZE - (MemRd(m, MT_WC) % DBSIZE)

WcInc(m) == MemWr(m, MT_WC, (MemRd(m, MT_WC) + 1) % (WORDMASK + 1))

\* word i + 1 of dbuf: three 6-bit bytes, or two 8-bit bytes
Unpack(dbuf, i, packed) ==
    IF packed
    THEN (dbuf[3 * i + 1] % 64) * 4096 + (dbuf[3 * i + 2] % 64) * 64
         + (dbuf[3 * i + 3] % 64)
    ELSE dbuf[2 * i + 1] * 256 + dbuf[2 * i + 2]

\* the copy loop counting the word before it is compared
RECURSIVE ReadLoop_counted(_, _, _, _, _, _, _, _)
ReadLoop_counted(m, i, wc, dbuf, packed, f, words, stores) ==
    IF i >= wc
    THEN [M |-> m, words |-> words, stores |-> stores, cpe |-> FALSE]
    ELSE
    LET ma == (MemRd(m, MT_MA) + 1) % (WORDMASK + 1)
        m1 == MemWr(m, MT_MA, ma)
        xma == ma % (ADDRMASK + 1)
        c == Unpack(dbuf, i, packed)
    IN  IF f = FN_READ /\ MEM_ADDR_OK(xma)
        THEN ReadLoop_counted(WcInc(MemWr(m1, xma, c)), i + 1, wc, dbuf, packed, f,
                              Append(words, c), Append(stores, << xma, c >>))
        ELSE IF f = FN_CMPARE
                /\ c # MemRd(m1, xma) % (IF packed THEN 262144 ELSE 65536)
        THEN [M |-> WcInc(m1), words |-> Append(words, c), stores |-> stores,
              cpe |-> TRUE]
        ELSE ReadLoop_counted(WcInc(m1), i + 1, wc, dbuf, packed, f,
                              Append(words, c), stores)

\* the copy loop of READ and COMPARE: word i + 1 of dbuf to M[++M[MT_MA]]
RECURSIVE ReadLoop(_, _, _, _, _, _, _, _)
ReadLoop(m, i, wc, dbuf, packed, f, words, stores) ==
    IF i >= wc
    THEN [M |-> m, words |-> words, stores |-> stores, cpe |-> FALSE]
    ELSE
    LET ma == (MemRd(m, MT_MA) + 1) % (WORDMASK + 1)
        m1 == MemWr(m, MT_MA, ma)
        xma == ma % (ADDRMASK + 1)
        c == Unpack(dbuf, i, packed)
    IN  IF f = FN_READ /\ MEM_ADDR_OK(xma)
        THEN ReadLoop(WcInc(MemWr(m1, xma, c)), i + 1, wc, dbuf, packed, f,
                      Append(words, c), Append(stores, << xma, c >>))
        ELSE IF f = FN_CMPARE
                /\ c # MemRd(m1, xma) % (IF packed THEN 262144 ELSE 65536)
        THEN [M |-> m1, words |-> Append(words, c), stores |-> stores,
              cpe |-> TRUE]
        ELSE ReadLoop(WcInc(m1), i + 1, wc, dbuf, packed, f,
                      Append(words, c), stores)

\* if (tbc != cbc) mt_sta = mt_sta | STA_RLE
LengthError_short(tbc, cbc) == tbc < cbc

LengthError(tbc, cbc) == tbc # cbc

\* case FN_READ, FN_CMPARE of mt_svc; g is the value of a byte of dbuf that
\* was never filled
mt_svc_read(S, u, f, g) ==
    LET up == S.units[u]
        none(how) == [how |-> how, words |-> <<>>, stores |-> <<>>]
    IN
    IF AtEof(up.file, up.pos)
    THEN [S |-> mt_updcsta([S EXCEPT !.units[u].USTAT = {STA_EOT}], u, {STA_RLE})]
         @@ none("eot")
    ELSE IF TbcZero(up.file, up.pos)
    THEN [S |-> [mt_updcsta([S EXCEPT !.units[u].USTAT = {STA_EOF}], u, {STA_RLE})
                  EXCEPT !.units[u].pos = up.pos + 4]] @@ none("mark")
    ELSE
    LET tbc == MTRL(up.file, up.pos)
        packed == PACKED(S.cu)
        wc0 == MtWords(S.M)
        cbc0 == IF packed THEN wc0 * 3 ELSE wc0 * 2
        S1 == IF LengthError(tbc, cbc0) THEN [S EXCEPT !.sta = S.sta \cup {STA_RLE}] ELSE S
        cbc == IF tbc < cbc0 THEN tbc ELSE cbc0
        wc == IF tbc < cbc0
              THEN (IF packed THEN (tbc + 2) \div 3 ELSE (tbc + 1) \div 2)
              ELSE wc0
        dbuf == [k \in 1 .. (IF packed THEN 3 * wc ELSE 2 * wc) |->
                    IF k > cbc THEN g
                    ELSE IF up.pos + 4 + k <= Len(up.file)
                    THEN up.file[up.pos + 4 + k]
                    ELSE 0]
        r == ReadLoop(S1.M, 0, wc, dbuf, packed, f, <<>>, <<>>)
        S2 == [S1 EXCEPT !.M = r.M]
        S3 == IF r.cpe THEN mt_updcsta(S2, u, {STA_CPE}) ELSE S2
    IN  [S |-> [S3 EXCEPT !.units[u].pos = up.pos + EvenUp(tbc) + 8],
         how |-> IF r.cpe THEN "differ" ELSE "record",
         words |-> r.words, stores |-> r.stores]

\* the bytes of the word w: three 6-bit bytes, or two 8-bit bytes
Pack_lowfirst(w, packed) ==
    IF packed
    THEN << w % 64, (w \div 64) % 64, (w \div 4096) % 64 >>
    ELSE << w % 256, (w \div 256) % 256 >>

Pack(w, packed) ==
    IF packed
    THEN << (w \div 4096) % 64, (w \div 64) % 64, w % 64 >>
    ELSE << (w \div 256) % 256, w % 256 >>

\* the copy loop of WRITE: M[++M[MT_MA]] to the next bytes of dbuf
RECURSIVE WriteLoop(_, _, _, _, _, _)
WriteLoop(m, i, wc, packed, bytes, words) ==
    IF i >= wc THEN [M |-> m, bytes |-> bytes, words |-> words]
    ELSE
    LET ma == (MemRd(m, MT_MA) + 1) % (WORDMASK + 1)
        m1 == MemWr(m, MT_MA, ma)
        xma == ma % (ADDRMASK + 1)
        w == MemRd(m1, xma)
    IN  WriteLoop(WcInc(m1), i + 1, wc, packed, bytes \o Pack(w, packed),
                  Append(words, w))

\* case FN_WRITE of mt_svc; g is the junk byte that pads an odd byte count
mt_svc_write(S, u, g) ==
    LET up == S.units[u]
        packed == PACKED(S.cu)
        wc == MtWords(S.M)
        tbc == IF packed THEN wc * 3 ELSE wc * 2
        r == WriteLoop(S.M, 0, wc, packed, <<>>, <<>>)
        pad == IF tbc % 2 = 1 THEN << g >> ELSE << >>
        rec == LE32(tbc) \o r.bytes \o pad \o LE32(tbc)
    IN  [S |-> [S EXCEPT !.M = r.M,
                         !.units[u].file = WriteAt(up.file, up.pos, rec),
                         !.units[u].pos = up.pos + EvenUp(tbc) + 8],
         how |-> "record", words |-> r.words, stores |-> <<>>]

\* case FN_WREOF of mt_svc, the mark framed like a record
mt_svc_wreof_framed(S, u) ==
    LET up == S.units[u] IN
    [S |-> [S EXCEPT !.units[u].file = WriteAt(up.file, up.pos, LE32(0) \o LE32(0)),
                     !.units[u].pos = up.pos + 8,
                     !.units[u].USTAT = {STA_EOF}],
     how |-> "mark", words |-> <<>>, stores |-> <<>>]

\* case FN_WREOF of mt_svc
mt_svc_wreof(S, u) ==
    LET up == S.units[u] IN
    [S |-> [S EXCEPT !.units[u].file = WriteAt(up.file, up.pos, LE32(0)),
                     !.units[u].pos = up.pos + 4,
                     !.units[u].USTAT = {STA_EOF}],
     how |-> "mark", words |-> <<>>, stores |-> <<>>]

\* one pass of a spacing loop, as the pair of the position and M[MT_WC]
Pass(pos, m) == << pos, MemRd(m, MT_WC) >>

\* where a spacing loop stops: the position, memory, the bit USTAT is set to
\* (0 when USTAT is left as it is) and the passes made
Stop(how, pos, m, ust, trail) ==
    [how |-> how, pos |-> pos, M |-> m, ust |-> ust, trail |-> trail]

\* SPACEF reads a zero byte count: the break leaves M[MT_WC] as it is
MarkStop_counted(pos, m, trail) == Stop("mark", pos + 4, WcInc(m), STA_EOF, trail)

MarkStop(pos, m, trail) == Stop("mark", pos + 4, m, STA_EOF, trail)

\* the do-while of FN_SPACEF
RECURSIVE SpaceF(_, _, _, _)
SpaceF(file, pos, m, trail) ==
    IF AtEof(file, pos) THEN Stop("eot", pos, m, STA_EOT, trail)
    ELSE IF TbcZero(file, pos) THEN MarkStop(pos, m, trail)
    ELSE
    LET p2 == pos + EvenUp(MTRL(file, pos)) + 8
        m2 == WcInc(m)
    IN  IF MemRd(m2, MT_WC) # 0
        THEN SpaceF(file, p2, m2, Append(trail, Pass(p2, m2)))
        ELSE Stop("count", p2, m2, 0, Append(trail, Pass(p2, m2)))

\* the do-while of FN_SPACER counting the record that ends at the start of
\* the tape
RECURSIVE SpaceR_counted(_, _, _, _)
SpaceR_counted(file, pos, m, trail) ==
    IF AtEof(file, pos - 4) THEN Stop("bot", 0, m, STA_BOT, trail)
    ELSE IF MTRL(file, pos - 4) = 0 THEN Stop("mark", pos - 4, m, STA_EOF, trail)
    ELSE
    LET p2 == pos - EvenUp(MTRL(file, pos - 4)) - 8
        m2 == WcInc(m)
    IN  IF p2 = 0 THEN Stop("bot", 0, m2, STA_BOT, Append(trail, Pass(0, m2)))
        ELSE IF MemRd(m2, MT_WC) # 0
        THEN SpaceR_counted(file, p2, m2, Append(trail, Pass(p2, m2)))
        ELSE Stop("count", p2, m2, 0, Append(trail, Pass(p2, m2)))

\* the do-while of FN_SPACER; a seek before the start of the file leaves
\* nothing to read
RECURSIVE SpaceR(_, _, _, _)
SpaceR(file, pos, m, trail) ==
    IF AtEof(file, pos - 4) THEN Stop("bot", 0, m, STA_BOT, trail)
    ELSE IF MTRL(file, pos - 4) = 0 THEN Stop("mark", pos - 4, m, STA_EOF, trail)
    ELSE
    LET p2 == pos - EvenUp(MTRL(file, pos - 4)) - 8 IN
    IF p2 = 0 THEN Stop("bot", 0, m, STA_BOT, Append(trail, Pass(0, m)))
    ELSE LET m2 == WcInc(m) IN
         IF MemRd(m2, MT_WC) # 0
         THEN SpaceR(file, p2, m2, Append(trail, Pass(p2, m2)))
         ELSE Stop("count", p2, m2, 0, Append(trail, Pass(p2, m2)))

mt_svc_space(S, u, f) ==
    LET up == S.units[u]
        r == IF f = FN_SPACEF THEN SpaceF(up.file, up.pos, S.M, <<>>)
             ELSE IF up.pos = 0 THEN Stop("bot", 0, S.M, STA_BOT, <<>>)
             ELSE SpaceR(up.file, up.pos, S.M, <<>>)
    IN  [S |-> [S EXCEPT !.M = r.M,
                         !.units[u].pos = r.pos,
                         !.units[u].USTAT = IF r.ust = 0 THEN up.USTAT ELSE {r.ust}],
         how |-> r.how, words |-> r.trail, stores |-> <<>>]

\* what mt_svc did when it ran no function of the switch
SVC_REWOUND == 8
SVC_UNATT == 9
SVC_WLK == 10

Done(S, stat, f, how, words, stores) ==
    [S |-> S, ret |-> [skip |-> FALSE, val |-> 0, stat |-> stat], f |-> f,
     how |-> how, words |-> words, stores |-> stores]

\* t_stat mt_svc (UNIT *uptr), no host I/O error occurring
mt_svc(S, u, g) ==
    LET up == S.units[u]
        f == GET_CMD(S.cu)
    IN
    IF STA_REW \in up.USTAT
    THEN LET S1 == [S EXCEPT !.units[u].pos = 0,
                             !.units[u].USTAT = IF up.att THEN {STA_BOT} ELSE {}]
         IN  Done(IF u = GET_UNIT(S.cu) THEN mt_updcsta(S1, u, {STA_DON}) ELSE S1,
                  "SCPE_OK", SVC_REWOUND, "", <<>>, <<>>)
    ELSE IF ~up.att
    THEN Done(mt_updcsta(S, u, {STA_ILL}), "SCPE_UNATT", SVC_UNATT, "", <<>>, <<>>)
    ELSE IF f \in {FN_WRITE, FN_WREOF} /\ up.wlk
    THEN Done(mt_updcsta(S, u, {STA_ILL}), "SCPE_OK", SVC_WLK, "", <<>>, <<>>)
    ELSE
    LET S1 == IF f \in {FN_WRITE, FN_WREOF}
              THEN [S EXCEPT !.cu = IF Bit(S.cu, CU_ERASE) THEN S.cu - CU_ERASE ELSE S.cu]
              ELSE S
        r == CASE f \in {FN_READ, FN_CMPARE} -> mt_svc_read(S1, u, f, g)
               [] f = FN_WRITE -> mt_svc_write(S1, u, g)
               [] f = FN_WREOF -> mt_svc_wreof(S1, u)
               [] f \in {FN_SPACEF, FN_SPACER} -> mt_svc_space(S1, u, f)
               [] OTHER -> [S |-> S1, how |-> "", words |-> <<>>, stores |-> <<>>]
    IN  Done(mt_updcsta(r.S, u, {STA_DON}), "SCPE_OK", f, r.how, r.words, r.stores)

\* t_stat mt_reset (DEVICE *dptr)
mt_reset(S) ==
    mt_updcsta([S EXCEPT !.cu = 0, !.sta = {},
                         !.units = [u \in MtUnits |->
                            [S.units[u] EXCEPT !.active = FALSE,
                                 !.USTAT = IF S.units[u].att THEN {STA_BOT} ELSE {}]]],
               0, {})

\* t_stat mt_attach (UNIT *uptr, char *cptr), attach_unit opening image
mt_attach(S, u, image) ==
    mt_updcsta([S EXCEPT !.units[u].att = TRUE, !.units[u].file = image,
                         !.units[u].pos = 0, !.units[u].USTAT = {STA_BOT}],
               GET_UNIT(S.cu), {})

\* t_stat mt_detach (UNIT *uptr), detach_unit closing the image
mt_detach(S, u) ==
    LET S1 == IF ~sim_is_active(S, u) THEN [S EXCEPT !.units[u].USTAT = {}] ELSE S
        S2 == mt_updcsta(S1, GET_UNIT(S1.cu), {})
    IN  [S2 EXCEPT !.units[u].att = FALSE, !.units[u].file = << >>]

\* SET MTn LOCKED / ENABLED (mt_mod)
mt_set_wlk(S, u, b) == [S EXCEPT !.units[u].wlk = b]

--------------------------------------------------------------------------
(***************************************************************************)
(* The Telnet terminal multiplexor (sim_tmxr.c).  A byte is kept as        *)
(* 0 .. 255, the way it lies in a buffer; the code looks at it through a   *)
(* char, which the comment at the Telnet constants takes to be signed.     *)
(* Of a receive or transmit buffer the model keeps the part below the      *)
(* insert pointer: nothing above it is read before it is written again.    *)
(* A socket is named by its handle, the index of its record in tmSock.     *)
(***************************************************************************)
TN_IAC == -1
TN_DONT == -2
TN_DO == -3
TN_WONT == -4
TN_WILL == -5
TN_BRK == -13
TN_BIN == 0
TN_ECHO == 1
TN_SGA == 3
TN_LINE == 34
TN_CR == 13

TNS_NORM == 0
TNS_IAC == 1
TNS_WILL == 2
TNS_WONT == 3
TNS_SKIP == 4

\* sim_tmxr.h, sim_sock.h
TMXR_MAXBUF == 128
TMXR_GUARD == 8
INVALID_SOCKET == 0
SOCKET_ERROR == -1

\* the value of a byte seen through a signed char, and the byte of a char
SChar(b) == IF b > 127 THEN b - 256 ELSE b
UByte(c) == c % 256

NumLines == 2
TmLines == 0 .. (NumLines - 1)

VARIABLES
    tm_master,    \* mp->master: the listening socket, 0 when there is none
    tm_ldsc,      \* mp->ldsc: line -> line descriptor (TMLN)
    tmSock,       \* the sockets the host has handed out, by handle
    tmBacklog,    \* the addresses of the clients waiting to be accepted
    tmIn,         \* line -> the bytes read from its connection so far
    tmOut,        \* line -> the characters its connection has delivered
    tmEv,         \* the last call into the library and what it found
    tmScript      \* what the peers, the device and the operator still do

tmVars == << tm_master, tm_ldsc, tmSock, tmBacklog, tmIn, tmOut, tmEv, tmScript >>

\* a TMLN of a static array: all zero
TmlnInit ==
    [conn |-> 0, ipad |-> 0, cnms |-> 0, tsta |-> 0, rcve |-> 0, xmte |-> 0,
     dstb |-> 0, rxbpr |-> 0, rxbpi |-> 0, rxcnt |-> 0, txbpr |-> 0, txbpi |-> 0,
     txcnt |-> 0, rxb |-> << >>, rbr |-> << >>, txb |-> << >>]

\* a socket: open until closed; inq the bytes that arrived and were not read,
\* eof the peer has closed, room the bytes a send will take, out the writes
SockInit == [open |-> TRUE, inq |-> << >>, eof |-> FALSE, room |-> 0, out |-> << >>]

Msg(text) == [msg |-> text, bytes |-> << >>]
Bytes(bs) == [msg |-> "", bytes |-> bs]

\* what a call reports: op the routine, line the line it was for, ret its
\* value (chr the character of a tmxr_getc_ln), sock the socket it got, rd
\* what the read (or send) on each line returned, got the bytes read on each
\* line, and the lines, the listening socket and the sockets as they were
\* on entry
TmEvent(op, line, ret, chr, sock, rd, got) ==
    [op |-> op, line |-> line, ret |-> ret, chr |-> chr, sock |-> sock, rd |-> rd,
     got |-> got, ln0 |-> tm_ldsc, master0 |-> tm_master, sock0 |-> tmSock]

NoRd == [i \in TmLines |-> 0]
NoGot == [i \in TmLines |-> << >>]
NoChar == [valid |-> FALSE, chr |-> 0, brk |-> FALSE]

TmRegsInit ==
    /\ tm_master = 0
    /\ tm_ldsc = [i \in TmLines |-> TmlnInit]
    /\ tmSock = << >>
    /\ tmBacklog = << >>
    /\ tmIn = [i \in TmLines |-> << >>]
    /\ tmOut = [i \in TmLines |-> << >>]
    /\ tmEv = [op |-> "init", line |-> 0, ret |-> 0, chr |-> NoChar, sock |-> 0, rd |-> NoRd,
               got |-> NoGot, ln0 |-> [i \in TmLines |-> TmlnInit], master0 |-> 0,
               sock0 |-> << >>]

(* sim_sock.c, as the library uses it *)
sim_close_sock(socks, s) ==
    IF s \in DOMAIN socks THEN [socks EXCEPT ![s].open = FALSE] ELSE socks

\* sim_write_sock whose result is not looked at
sim_write_sock(socks, s, w) ==
    IF s \in DOMAIN socks THEN [socks EXCEPT ![s].out = Append(@, w)] ELSE socks

\* tmxr_msg
tmxr_msg(socks, s, text) == IF s # 0 THEN sim_write_sock(socks, s, Msg(text)) ELSE socks

\* the result of the send of n bytes in tmxr_poll_tx
SendResult(socks, s, n) ==
    IF s \in DOMAIN socks /\ socks[s].open /\ socks[s].room > 0
    THEN (IF n < socks[s].room THEN n ELSE socks[s].room)
    ELSE SOCKET_ERROR

\* the result of a read of at most max bytes: what has arrived, as far as it
\* fits; -1 when the peer has closed and nothing is left; 0 when there is
\* nothing yet
sim_read_sock(socks, s, max) ==
    LET have == IF s \in DOMAIN socks THEN Len(socks[s].inq) ELSE 0
        m == IF have < max THEN have ELSE max
    IN  IF m > 0 THEN m
        ELSE IF s \in DOMAIN socks /\ socks[s].eof /\ have = 0 THEN -1
        ELSE 0

(* The library *)
\* the lowest line without a connection, NumLines if there is none
FirstAvail_last(ldsc) ==
    IF \E i \in TmLines : ldsc[i].conn = 0
    THEN CHOOSE i \in TmLines :
            ldsc[i].conn = 0 /\ \A j \in TmLines : ldsc[j].conn = 0 => j <= i
    ELSE NumLines

FirstAvail(ldsc) ==
    IF \E i \in TmLines : ldsc[i].conn = 0
    THEN CHOOSE i \in TmLines :
            ldsc[i].conn = 0 /\ \A j \in TmLines : ldsc[j].conn = 0 => i <= j
    ELSE NumLines

mantra ==
    << UByte(TN_IAC), UByte(TN_WILL), TN_LINE, UByte(TN_IAC), UByte(TN_WILL), TN_SGA,
       UByte(TN_IAC), UByte(TN_WILL), TN_ECHO, UByte(TN_IAC), UByte(TN_WILL), TN_BIN,
       UByte(TN_IAC), UByte(TN_DO), TN_BIN >>

\* a reading of the host clock (sim_os_msec)
MSEC == 1000

\* all lines busy: the notice, and the new socket is closed
AllBusy_keep(socks, newsock) == tmxr_msg(socks, newsock, "All connections busy\r\n")

AllBusy(socks, newsock) ==
    sim_close_sock(tmxr_msg(socks, newsock, "All connections busy\r\n"), newsock)

\* int32 tmxr_poll_conn (TMXR *mp), sim_accept_conn having returned newsock
\* for a client at ipaddr (newsock = INVALID_SOCKET: nobody is waiting)
tmxr_poll_conn(ldsc, socks, newsock, ipaddr) ==
    IF newsock = INVALID_SOCKET THEN [ldsc |-> ldsc, socks |-> socks, ret |-> -1]
    ELSE
    LET i == FirstAvail(ldsc) IN
    IF i >= NumLines
    THEN [ldsc |-> ldsc, socks |-> AllBusy(socks, newsock), ret |-> -1]
    ELSE [ldsc |-> [ldsc EXCEPT ![i] =
                      [@ EXCEPT !.conn = newsock, !.ipad = ipaddr, !.cnms = MSEC,
                                !.rxbpr = 0, !.rxbpi = 0, !.txbpr = 0, !.txbpi = 0,
                                !.rxcnt = 0, !.txcnt = 0, !.tsta = 0, !.xmte = 1,
                                !.dstb = 0,
                                !.rxb = << >>, !.rbr = << >>, !.txb = << >>]],
          socks |-> tmxr_msg(tmxr_msg(tmxr_msg(
                       sim_write_sock(socks, newsock, Bytes(mantra)),
                       newsock, "\n\r\nConnected to the "),
                       newsock, "sim_name"),
                       newsock, " simulator\r\n\n"),
          ret |-> i]

\* void tmxr_reset_ln (TMLN *lp): the descriptor (the socket is closed by
\* the caller of this operator)
tmxr_reset_ln_keepstate(lp) ==
    [lp EXCEPT !.conn = 0, !.rxbpr = 0, !.rxbpi = 0, !.txbpr = 0,
               !.txbpi = 0, !.xmte = 1, !.dstb = 0,
               !.rxb = << >>, !.rbr = << >>, !.txb = << >>]

tmxr_reset_ln(lp) ==
    [lp EXCEPT !.conn = 0, !.tsta = 0, !.rxbpr = 0, !.rxbpi = 0, !.txbpr = 0,
               !.txbpi = 0, !.xmte = 1, !.dstb = 0,
               !.rxb = << >>, !.rbr = << >>, !.txb = << >>]

\* if (lp->rxbpi == lp->rxbpr) lp->rxbpi = lp->rxbpr = 0
ZeroPtrs(lp) ==
    IF lp.rxbpi = lp.rxbpr
    THEN [lp EXCEPT !.rxbpi = 0, !.rxbpr = 0, !.rxb = << >>, !.rbr = << >>]
    ELSE lp

\* the byte at index i (from 0) of a buffer filled up to its insert pointer;
\* above it lies whatever was there before
At(buf, i, stale) == IF i + 1 \in DOMAIN buf THEN buf[i + 1] ELSE stale

\* int32 tmxr_getc_ln (TMLN *lp): the descriptor and the character
tmxr_getc_ln_keep(lp, stale) ==
    IF lp.conn # 0 /\ lp.rcve # 0 /\ lp.rxbpi - lp.rxbpr # 0
    THEN [lp |-> [lp EXCEPT !.rxbpr = lp.rxbpr + 1],
          chr |-> [valid |-> TRUE, chr |-> At(lp.rxb, lp.rxbpr, stale),
                   brk |-> At(lp.rbr, lp.rxbpr, stale) # 0]]
    ELSE [lp |-> lp, chr |-> NoChar]

tmxr_getc_ln(lp, stale) ==
    IF lp.conn # 0 /\ lp.rcve # 0 /\ lp.rxbpi - lp.rxbpr # 0
    THEN [lp |-> ZeroPtrs([lp EXCEPT !.rxbpr = lp.rxbpr + 1]),
          chr |-> [valid |-> TRUE, chr |-> At(lp.rxb, lp.rxbpr, stale),
                   brk |-> At(lp.rbr, lp.rxbpr, stale) # 0]]
    ELSE [lp |-> ZeroPtrs(lp), chr |-> NoChar]

\* s without its element of index p (from 0)
Cut(s, p) == SubSeq(s, 1, p) \o SubSeq(s, p + 2, Len(s))

\* void tmxr_rmvrc (TMLN *lp, int32 p)
tmxr_rmvrc(lp, p) ==
    [lp EXCEPT !.rxb = Cut(lp.rxb, p), !.rbr = Cut(lp.rbr, p), !.rxbpi = lp.rxbpi - 1]

Seen(lp, j) == [lp |-> lp, j |-> j]

\* case TNS_NORM
tn_norm(lp, j, tmp) ==
    IF tmp = TN_IAC THEN Seen(tmxr_rmvrc([lp EXCEPT !.tsta = TNS_IAC], j), j)
    ELSE Seen(IF tmp = TN_CR /\ lp.dstb # 0 THEN [lp EXCEPT !.tsta = TNS_SKIP] ELSE lp,
              j + 1)

\* case TNS_IAC without the test for a second IAC
tn_iac_drop(lp, j, tmp) ==
    IF tmp = TN_BRK
    THEN Seen([lp EXCEPT !.tsta = TNS_NORM, !.rxb[j + 1] = 0, !.rbr[j + 1] = 1], j + 1)
    ELSE Seen(tmxr_rmvrc([lp EXCEPT !.tsta = IF tmp = TN_WILL THEN TNS_WILL
                                              ELSE IF tmp = TN_WONT THEN TNS_WONT
                                              ELSE TNS_SKIP], j), j)

\* case TNS_IAC
tn_iac(lp, j, tmp) ==
    IF tmp = TN_IAC /\ lp.dstb = 0 THEN Seen([lp EXCEPT !.tsta = TNS_NORM], j + 1)
    ELSE IF tmp = TN_BRK
    THEN Seen([lp EXCEPT !.tsta = TNS_NORM, !.rxb[j + 1] = 0, !.rbr[j + 1] = 1], j + 1)
    ELSE Seen(tmxr_rmvrc([lp EXCEPT !.tsta = IF tmp = TN_WILL THEN TNS_WILL
                                              ELSE IF tmp = TN_WONT THEN TNS_WONT
                                              ELSE TNS_SKIP], j), j)

\* case TNS_WILL, TNS_WONT, TNS_SKIP, default, WILL and WONT exchanged
tn_skip_swapped(lp, j, tmp) ==
    LET l1 == IF lp.tsta \in {TNS_WILL, TNS_WONT} /\ tmp = TN_BIN
              THEN [lp EXCEPT !.dstb = IF lp.tsta = TNS_WILL THEN 1 ELSE 0]
              ELSE lp
    IN  Seen(tmxr_rmvrc([l1 EXCEPT !.tsta = TNS_NORM], j), j)

\* case TNS_WILL, TNS_WONT, TNS_SKIP, default, the option byte kept
tn_skip_keep(lp, j, tmp) ==
    LET l1 == IF lp.tsta \in {TNS_WILL, TNS_WONT} /\ tmp = TN_BIN
              THEN [lp EXCEPT !.dstb = IF lp.tsta = TNS_WILL THEN 0 ELSE 1]
              ELSE lp
    IN  Seen([l1 EXCEPT !.tsta = TNS_NORM], j + 1)

\* case TNS_WILL, TNS_WONT, TNS_SKIP, default
tn_skip(lp, j, tmp) ==
    LET l1 == IF lp.tsta \in {TNS_WILL, TNS_WONT} /\ tmp = TN_BIN
              THEN [lp EXCEPT !.dstb = IF lp.tsta = TNS_WILL THEN 0 ELSE 1]
              ELSE lp
    IN  Seen(tmxr_rmvrc([l1 EXCEPT !.tsta = TNS_NORM], j), j)

\* the index the loop reaches from j in the normal state by j = j + 1 alone:
\* the first from j on whose byte is an IAC, or a carriage return outside
\* binary mode; lp->rxbpi if there is none
NormRun(lp, j) ==
    LET stops == { k \in j .. (lp.rxbpi - 1) :
                     \/ SChar(lp.rxb[k + 1]) = TN_IAC
                     \/ SChar(lp.rxb[k + 1]) = TN_CR /\ lp.dstb # 0 }
    IN  IF stops = {} THEN lp.rxbpi
        ELSE CHOOSE k \in stops : \A x \in stops : k <= x

\* for (; j < lp->rxbpi; ) switch (lp->tsta); a run of bytes the normal
\* state passes over is taken in one step
RECURSIVE Cruft(_, _)
Cruft(lp, j) ==
    IF j >= lp.rxbpi THEN lp
    ELSE IF lp.tsta = TNS_NORM /\ NormRun(lp, j) > j THEN Cruft(lp, NormRun(lp, j))
    ELSE LET tmp == SChar(lp.rxb[j + 1])
             s == CASE lp.tsta = TNS_NORM -> tn_norm(lp, j, tmp)
                    [] lp.tsta = TNS_IAC -> tn_iac(lp, j, tmp)
                    [] OTHER -> tn_skip(lp, j, tmp)
         IN  Cruft(s.lp, s.j)

\* the highest index of rxb and rbr tmxr_rmvrc (lp, p) reads: p + 1 for the
\* last p of its loop, which is lp->rxbpi - 1
RmvrcTop(lp, p) == IF p < lp.rxbpi THEN lp.rxbpi ELSE -1

\* the highest index the calls of tmxr_rmvrc made by the loop read, -1 if
\* it makes none
RECURSIVE CruftTop(_, _)
CruftTop(lp, j) ==
    IF j >= lp.rxbpi THEN -1
    ELSE IF lp.tsta = TNS_NORM /\ NormRun(lp, j) > j THEN CruftTop(lp, NormRun(lp, j))
    ELSE LET tmp == SChar(lp.rxb[j + 1])
             s == CASE lp.tsta = TNS_NORM -> tn_norm(lp, j, tmp)
                    [] lp.tsta = TNS_IAC -> tn_iac(lp, j, tmp)
                    [] OTHER -> tn_skip(lp, j, tmp)
             here == IF s.lp.rxbpi < lp.rxbpi THEN RmvrcTop(lp, j) ELSE -1
             rest == CruftTop(s.lp, s.j)
         IN  IF here > rest THEN here ELSE rest

Zeros(n) == [k \in 1 .. n |-> 0]

\* the body of the loop with the Telnet state started afresh for each read
poll_rx_ln_fresh(lp, nbytes, data) ==
    IF nbytes < 0 THEN tmxr_reset_ln(lp)
    ELSE IF nbytes > 0
    THEN Cruft([lp EXCEPT !.rxb = @ \o data, !.rbr = @ \o Zeros(nbytes),
                          !.rxbpi = lp.rxbpi + nbytes, !.rxcnt = lp.rxcnt + nbytes,
                          !.tsta = TNS_NORM],
               lp.rxbpi)
    ELSE lp

\* the body of the first loop of tmxr_poll_rx for one line: the read has
\* returned nbytes and, if any, the bytes data
poll_rx_ln(lp, nbytes, data) ==
    IF nbytes < 0 THEN tmxr_reset_ln(lp)
    ELSE IF nbytes > 0
    THEN Cruft([lp EXCEPT !.rxb = @ \o data, !.rbr = @ \o Zeros(nbytes),
                          !.rxbpi = lp.rxbpi + nbytes, !.rxcnt = lp.rxcnt + nbytes],
               lp.rxbpi)
    ELSE lp

\* the size of the read tmxr_poll_rx makes on a line, -1 if it makes none
ReadMax(lp) ==
    IF lp.conn = 0 \/ lp.rcve = 0 THEN -1
    ELSE IF lp.rxbpi = 0 THEN TMXR_MAXBUF - TMXR_GUARD
    ELSE IF lp.tsta # 0 THEN TMXR_MAXBUF - lp.rxbpi
    ELSE -1

\* void tmxr_putc_ln (TMLN *lp, int32 chr)
tmxr_putc_ln_late(lp, chr) ==
    IF lp.conn = 0 THEN lp
    ELSE IF lp.txbpi < TMXR_MAXBUF
    THEN LET c == UByte(chr)
             l1 == [lp EXCEPT !.txb = Append(@, c), !.txbpi = lp.txbpi + 1]
             l2 == IF SChar(c) = TN_IAC /\ l1.txbpi < TMXR_MAXBUF
                   THEN [l1 EXCEPT !.txb = Append(@, c), !.txbpi = l1.txbpi + 1]
                   ELSE l1
         IN  IF l2.txbpi > TMXR_MAXBUF - 1 THEN [l2 EXCEPT !.xmte = 0] ELSE l2
    ELSE [lp EXCEPT !.xmte = 0]

tmxr_putc_ln(lp, chr) ==
    IF lp.conn = 0 THEN lp
    ELSE IF lp.txbpi < TMXR_MAXBUF
    THEN LET c == UByte(chr)
             l1 == [lp EXCEPT !.txb = Append(@, c), !.txbpi = lp.txbpi + 1]
             l2 == IF SChar(c) = TN_IAC /\ l1.txbpi < TMXR_MAXBUF
                   THEN [l1 EXCEPT !.txb = Append(@, c), !.txbpi = l1.txbpi + 1]
                   ELSE l1
         IN  IF l2.txbpi > TMXR_MAXBUF - TMXR_GUARD THEN [l2 EXCEPT !.xmte = 0] ELSE l2
    ELSE [lp EXCEPT !.xmte = 0]

\* the body of the loop of tmxr_poll_tx for one line whose send returned
\* sbytes (no send is made when nothing is queued)
poll_tx_ln(lp, sbytes) ==
    IF lp.conn = 0 THEN lp
    ELSE
    LET nbytes == lp.txbpi - lp.txbpr
        sent == nbytes # 0 /\ sbytes # SOCKET_ERROR
        l1 == IF sent
              THEN [lp EXCEPT !.txbpr = lp.txbpr + sbytes, !.txcnt = lp.txcnt + sbytes]
              ELSE lp
        left == IF sent THEN nbytes - sbytes ELSE nbytes
    IN  IF left = 0
        THEN [l1 EXCEPT !.xmte = 1, !.txbpr = 0, !.txbpi = 0, !.txb = << >>]
        ELSE l1

\* t_stat tmxr_open_master (TMXR *mp, char *cptr), the port being good and
\* sim_master_sock having returned a socket: the lines
tmxr_open_master(ldsc) ==
    [i \in TmLines |->
        [ldsc[i] EXCEPT !.conn = 0, !.tsta = 0, !.rxbpi = 0, !.rxbpr = 0, !.txbpi = 0,
                        !.txbpr = 0, !.rxcnt = 0, !.txcnt = 0, !.xmte = 1, !.dstb = 0,
                        !.rxb = << >>, !.rbr = << >>, !.txb = << >>]]

\* the farewell and the reset of line i, if it has a connection
Disconnect(ldsc, socks, i, text) ==
    IF ldsc[i].conn # 0
    THEN [ldsc |-> [ldsc EXCEPT ![i] = tmxr_reset_ln(@)],
          socks |-> sim_close_sock(tmxr_msg(socks, ldsc[i].conn, text), ldsc[i].conn)]
    ELSE [ldsc |-> ldsc, socks |-> socks]

\* t_stat tmxr_close_master (TMXR *mp): the loop over the lines up to line n
RECURSIVE CloseLines(_, _, _)
CloseLines(ldsc, socks, n) ==
    IF n = 0 THEN [ldsc |-> ldsc, socks |-> socks]
    ELSE LET r == CloseLines(ldsc, socks, n - 1)
         IN  Disconnect(r.ldsc, r.socks, n - 1,
                        "\r\nDisconnected from the sim_name simulator\r\n\n")

tmxr_close_master(ldsc, socks, master) ==
    LET r == CloseLines(ldsc, socks, NumLines)
    IN  [ldsc |-> r.ldsc, socks |-> sim_close_sock(r.socks, master)]

\* t_stat tmxr_dscln (UNIT *uptr, int32 val, char *cptr, void *desc)
tmxr_dscln(ldsc, socks, ln) ==
    Disconnect(ldsc, socks, ln, "\r\nOperator disconnected line\r\n\n")

--------------------------------------------------------------------------
(***************************************************************************)
(* The SIMH pseudo device on port 0xfe (AltairZ80/altairz80_sio.c).  The   *)
(* wild card expansion (getHostFilenames), whose state is that of the      *)
(* host's glob, is left out: the programs of the model do not send it.     *)
(* What a command does outside the device (print, attach, sleep, switch    *)
(* the processor, set a clock) is left to the host.                        *)
(***************************************************************************)
printTimeCmd == 0
startTimerCmd == 1
stopTimerCmd == 2
attachPTRCmd == 4
getSIMHVersionCmd == 6
getClockZSDOSCmd == 7
setClockZSDOSCmd == 8
getClockCPM3Cmd == 9
setClockCPM3Cmd == 10
getBankSelectCmd == 11
setBankSelectCmd == 12
getCommonCmd == 13
resetSIMHInterfaceCmd == 14
showTimerCmd == 15
attachPTPCmd == 16
hasBankedMemoryCmd == 18
setTimerDeltaCmd == 23
setTimerInterruptAdrCmd == 24
resetStopWatchCmd == 25
readStopWatchCmd == 26
getHostOSPathSeparator == 28
TIMER_STACK_LIMIT == 10

\* static char version[] = "SIMH003", with its terminating null
version == << 83, 73, 77, 72, 48, 48, 51, 0 >>

VARIABLES
    simh,         \* the static variables of the pseudo device
    simhEnv,      \* what the host and the processor answer in this run
    simhEv,       \* the last access to the port and the reads since a command
    simhScript    \* the accesses of the program still to come

simhVars == << simh, simhEnv, simhEv, simhScript >>

\* static int32 toBCD(const int32 x)
toBCD(x) == (x \div 10) * 16 + (x % 10)

\* the variables as their initializers and simh_dev_reset leave them
simh_dev_reset ==
    [lastCommand |-> 0, markTimeSP |-> 0, versionPos |-> 0, getCommonPos |-> 0,
     getStopWatchDeltaPos |-> 0, getClockZSDOSPos |-> 0, getClockCPM3Pos |-> 0,
     setClockZSDOSPos |-> 0, setClockCPM3Pos |-> 0, setTimerDeltaPos |-> 0,
     setTimerInterruptAdrPos |-> 0, setClockZSDOSAdr |-> 0, setClockCPM3Adr |-> 0,
     timerDelta |-> 100, timerInterruptHandler |-> 64512,
     currentTimeValid |-> FALSE, currentTime |-> << >>, daysCPM3SinceOrg |-> 0,
     stopWatchDelta |-> 0, lastCPMStatus |-> 0]

\* a two-byte parameter: the low byte, then the high byte, which ends the
\* command
SimhParam(s, pos, val, data) ==
    IF s[pos] = 0
    THEN [s EXCEPT ![val] = data, ![pos] = 1]
    ELSE [s EXCEPT ![val] = BitOr(s[val], data * 256), ![pos] = 0,
                   !.lastCommand = 0]

\* static int32 simh_out(const int32 port, const int32 data): the variables
\* after the call
simh_out(s, data, env) ==
    CASE s.lastCommand = setClockZSDOSCmd ->
            SimhParam(s, "setClockZSDOSPos", "setClockZSDOSAdr", data)
      [] s.lastCommand = setClockCPM3Cmd ->
            SimhParam(s, "setClockCPM3Pos", "setClockCPM3Adr", data)
      [] s.lastCommand = setBankSelectCmd -> [s EXCEPT !.lastCommand = 0]
      [] s.lastCommand = setTimerDeltaCmd ->
            SimhParam(s, "setTimerDeltaPos", "timerDelta", data)
      [] s.lastCommand = setTimerInterruptAdrCmd ->
            SimhParam(s, "setTimerInterruptAdrPos", "timerInterruptHandler", data)
      [] OTHER ->
            LET s1 == [s EXCEPT !.lastCommand = data] IN
            CASE data = startTimerCmd ->
                    IF env.rtc_avail /\ s1.markTimeSP < TIMER_STACK_LIMIT
                    THEN [s1 EXCEPT !.markTimeSP = @ + 1] ELSE s1
              [] data = stopTimerCmd ->
                    IF env.rtc_avail /\ s1.markTimeSP > 0
                    THEN [s1 EXCEPT !.markTimeSP = @ - 1] ELSE s1
              [] data \in { attachPTRCmd, attachPTPCmd } ->
                    [s1 EXCEPT !.lastCPMStatus = env.status]
              [] data = getSIMHVersionCmd -> [s1 EXCEPT !.versionPos = 0]
              [] data = getClockZSDOSCmd ->
                    [s1 EXCEPT !.currentTime = env.time, !.currentTimeValid = TRUE,
                               !.getClockZSDOSPos = 0]
              [] data = setClockZSDOSCmd -> [s1 EXCEPT !.setClockZSDOSPos = 0]
              [] data = getClockCPM3Cmd ->
                    [s1 EXCEPT !.currentTime = env.time, !.currentTimeValid = TRUE,
                               !.daysCPM3SinceOrg = env.days, !.getClockCPM3Pos = 0]
              [] data = setClockCPM3Cmd -> [s1 EXCEPT !.setClockCPM3Pos = 0]
              [] data = resetSIMHInterfaceCmd ->
                    [s1 EXCEPT !.markTimeSP = 0, !.lastCommand = 0]
              [] data = setTimerDeltaCmd -> [s1 EXCEPT !.setTimerDeltaPos = 0]
              [] data = setTimerInterruptAdrCmd ->
                    [s1 EXCEPT !.setTimerInterruptAdrPos = 0]
              [] data = readStopWatchCmd ->
                    [s1 EXCEPT !.getStopWatchDeltaPos = 0,
                               !.stopWatchDelta = IF env.rtc_avail THEN env.elapsed ELSE 0]
              [] OTHER -> s1

\* static int32 simh_in(const int32 port): the variables after the call and
\* the result
SimhGave(s, result) == [s |-> s, result |-> result]

simh_in(s, env) ==
    CASE s.lastCommand \in { attachPTRCmd, attachPTPCmd } ->
            SimhGave([s EXCEPT !.lastCommand = 0], s.lastCPMStatus)
      [] s.lastCommand = getClockZSDOSCmd ->
            IF s.currentTimeValid
            THEN CASE s.getClockZSDOSPos = 0 ->
                        SimhGave([s EXCEPT !.getClockZSDOSPos = 1],
                                 toBCD(IF s.currentTime.tm_year > 99
                                       THEN s.currentTime.tm_year - 100
                                       ELSE s.currentTime.tm_year))
                   [] s.getClockZSDOSPos = 1 ->
                        SimhGave([s EXCEPT !.getClockZSDOSPos = 2],
                                 toBCD(s.currentTime.tm_mon + 1))
                   [] s.getClockZSDOSPos = 2 ->
                        SimhGave([s EXCEPT !.getClockZSDOSPos = 3],
                                 toBCD(s.currentTime.tm_mday))
                   [] s.getClockZSDOSPos = 3 ->
                        SimhGave([s EXCEPT !.getClockZSDOSPos = 4],
                                 toBCD(s.currentTime.tm_hour))
                   [] s.getClockZSDOSPos = 4 ->
                        SimhGave([s EXCEPT !.getClockZSDOSPos = 5],
                                 toBCD(s.currentTime.tm_min))
                   [] s.getClockZSDOSPos = 5 ->
                        SimhGave([s EXCEPT !.getClockZSDOSPos = 0, !.lastCommand = 0],
                                 toBCD(s.currentTime.tm_sec))
                   [] OTHER -> SimhGave(s, 0)
            ELSE SimhGave([s EXCEPT !.getClockZSDOSPos = 0, !.lastCommand = 0], 0)
      [] s.lastCommand = getClockCPM3Cmd ->
            IF s.currentTimeValid
            THEN CASE s.getClockCPM3Pos = 0 ->
                        SimhGave([s EXCEPT !.getClockCPM3Pos = 1],
                                 s.daysCPM3SinceOrg % 256)
                   [] s.getClockCPM3Pos = 1 ->
                        SimhGave([s EXCEPT !.getClockCPM3Pos = 2],
                                 (s.daysCPM3SinceOrg \div 256) % 256)
                   [] s.getClockCPM3Pos = 2 ->
                        SimhGave([s EXCEPT !.getClockCPM3Pos = 3],
                                 toBCD(s.currentTime.tm_hour))
                   [] s.getClockCPM3Pos = 3 ->
                        SimhGave([s EXCEPT !.getClockCPM3Pos = 4],
                                 toBCD(s.currentTime.tm_min))
                   [] s.getClockCPM3Pos = 4 ->
                        SimhGave([s EXCEPT !.getClockCPM3Pos = 0, !.lastCommand = 0],
                                 toBCD(s.currentTime.tm_sec))
                   [] OTHER -> SimhGave(s, 0)
            ELSE SimhGave([s EXCEPT !.getClockCPM3Pos = 0, !.lastCommand = 0], 0)
      [] s.lastCommand = getSIMHVersionCmd ->
            LET result == version[s.versionPos + 1]
            IN  IF result = 0
                THEN SimhGave([s EXCEPT !.versionPos = 0, !.lastCommand = 0], result)
                ELSE SimhGave([s EXCEPT !.versionPos = @ + 1], result)
      [] s.lastCommand = getBankSelectCmd ->
            SimhGave([s EXCEPT !.lastCommand = 0], IF env.banked THEN env.bank ELSE 0)
      [] s.lastCommand = getCommonCmd ->
            IF s.getCommonPos = 0
            THEN SimhGave([s EXCEPT !.getCommonPos = 1], env.common % 256)
            ELSE SimhGave([s EXCEPT !.getCommonPos = 0, !.lastCommand = 0],
                          (env.common \div 256) % 256)
      [] s.lastCommand = hasBankedMemoryCmd ->
            SimhGave([s EXCEPT !.lastCommand = 0], IF env.banked THEN env.maxbanks ELSE 0)
      [] s.lastCommand = readStopWatchCmd ->
            IF s.getStopWatchDeltaPos = 0
            THEN SimhGave([s EXCEPT !.getStopWatchDeltaPos = 1], s.stopWatchDelta % 256)
            ELSE SimhGave([s EXCEPT !.getStopWatchDeltaPos = 0, !.lastCommand = 0],
                          (s.stopWatchDelta \div 256) % 256)
      [] s.lastCommand = getHostOSPathSeparator -> SimhGave(s, env.separator)
      [] OTHER -> SimhGave([s EXCEPT !.lastCommand = 0], 0)

\* an access and what was read since the last byte taken as a command: the
\* command, the variables it found, the resets in a row, the results read
SimhEvent(op, data, result, cmd, s0, resets, reads) ==
    [op |-> op, data |-> data, result |-> result, cmd |-> cmd, s0 |-> s0,
     resets |-> resets, reads |-> reads]

SimhRegsInit ==
    /\ simh = simh_dev_reset
    /\ simhEv = SimhEvent("init", 0, 0, -1, simh_dev_reset, 0, << >>)

\* the hosts: a machine with banked memory and a clock, one without; the
\* time is 2 November 2026, 15:45:24, and 29 February 2000, 09:08:07
SimhEnvs ==
    { [banked |-> TRUE, rtc_avail |-> TRUE, bank |-> 3, maxbanks |-> 8,
       common |-> 49152, elapsed |-> 4660, status |-> 0, separator |-> 47,
       time |-> [tm_year |-> 126, tm_mon |-> 10, tm_mday |-> 2, tm_hour |-> 15,
                 tm_min |-> 45, tm_sec |-> 24],
       days |-> 17838],
      [banked |-> FALSE, rtc_avail |-> FALSE, bank |-> 0, maxbanks |-> 8,
       common |-> 4660, elapsed |-> 0, status |-> 70, separator |-> 92,
       time |-> [tm_year |-> 100, tm_mon |-> 1, tm_mday |-> 29, tm_hour |-> 9,
                 tm_min |-> 8, tm_sec |-> 7],
       days |-> 8095] }

\* the pseudo device left alone
SimhIdle == SimhRegsInit /\ simhEnv \in { CHOOSE e \in SimhEnvs : e.banked } /\ simhScript = << >>

--------------------------------------------------------------------------
(***************************************************************************)
(* The port mapping of the serial I/O device (AltairZ80/altairz80_sio.c).  *)
(* port_table is kept as the function from the indices holding an entry    *)
(* that is not all zero to that entry: the entries of the static array     *)
(* after its initializers are zero.                                        *)
(***************************************************************************)
PORT_TABLE_SIZE == 256
SIO_CAN_READ == 1
SIO_CAN_WRITE == 2
SIO_RESET == 3
VGSIO_CAN_READ == 2
VGSIO_CAN_WRITE == 1
KBD_HAS_CHAR == 64
KBD_HAS_NO_CHAR == 1

VARIABLES
    port_table,   \* the entries that are not all zero, by their index
    sioBeyond,    \* a store was made behind the last entry of port_table
    sioDev,       \* the I/O routine sim_map_resource has set for a port
    sioEv,        \* the last command: its port, its entry and its result
    sioInterrupt, \* sio_unit.flags & UNIT_SIO_INTERRUPT
    sioActive,    \* sio_unit is in the event queue: sio_svc is to run
    sioScript     \* the commands to come

sioVars ==
    << port_table, sioBeyond, sioDev, sioEv, sioInterrupt, sioActive, sioScript,
       simhVars >>

\* a SIO_PORT_INFO
SIP(port, line, canRead, cannotRead, canWrite, hasReset, reset, hasOUT, builtin) ==
    [port |-> port, terminalLine |-> line, sio_can_read |-> canRead,
     sio_cannot_read |-> cannotRead, sio_can_write |-> canWrite,
     hasReset |-> hasReset, sio_reset |-> reset, hasOUT |-> hasOUT,
     isBuiltin |-> builtin]

ZeroSIP == SIP(0, 0, 0, 0, 0, FALSE, 0, FALSE, FALSE)

\* {-1, 0, 0, 0, 0, 0, 0, 0, 0}
LastSIP == SIP(-1, 0, 0, 0, 0, FALSE, 0, FALSE, FALSE)

\* the initializers of port_table
port_table_init ==
    << SIP(0, 0, KBD_HAS_CHAR, KBD_HAS_NO_CHAR, SIO_CAN_WRITE, FALSE, 0, FALSE, TRUE),
       SIP(1, 0, 0, 0, 0, FALSE, 0, FALSE, TRUE),
       SIP(2, 0, VGSIO_CAN_READ, 0, VGSIO_CAN_WRITE, FALSE, 0, TRUE, TRUE),
       SIP(3, 0, VGSIO_CAN_READ, 0, VGSIO_CAN_WRITE, FALSE, 0, FALSE, TRUE),
       SIP(16, 0, SIO_CAN_READ, 0, SIO_CAN_WRITE, TRUE, SIO_RESET, FALSE, TRUE),
       SIP(20, 1, SIO_CAN_READ, 0, SIO_CAN_WRITE, TRUE, SIO_RESET, FALSE, TRUE),
       SIP(22, 2, SIO_CAN_READ, 0, SIO_CAN_WRITE, TRUE, SIO_RESET, FALSE, TRUE),
       SIP(24, 3, SIO_CAN_READ, 0, SIO_CAN_WRITE, TRUE, SIO_RESET, FALSE, TRUE),
       SIP(17, 0, SIO_CAN_READ, 0, SIO_CAN_WRITE, TRUE, SIO_RESET, TRUE, TRUE),
       SIP(21, 1, SIO_CAN_READ, 0, SIO_CAN_WRITE, TRUE, SIO_RESET, TRUE, TRUE),
       SIP(23, 2, SIO_CAN_READ, 0, SIO_CAN_WRITE, TRUE, SIO_RESET, TRUE, TRUE),
       SIP(25, 3, SIO_CAN_READ, 0, SIO_CAN_WRITE, TRUE, SIO_RESET, TRUE, TRUE),
       LastSIP >>

\* port_table[i], i inside the array
PtRd(t, i) == IF i \in DOMAIN t THEN t[i] ELSE ZeroSIP

\* port_table[i] = v; a store at PORT_TABLE_SIZE or behind is not one to the
\* array
PtWr(t, i, v) ==
    IF i >= PORT_TABLE_SIZE THEN t
    ELSE IF v = ZeroSIP THEN [x \in DOMAIN t \ {i} |-> t[x]]
    ELSE [x \in DOMAIN t \cup {i} |-> IF x = i THEN v ELSE t[x]]

\* lookupPortInfo: *position, the first index whose entry has the port or is
\* the last entry (an entry that is all zero has the port 0);
\* PORT_TABLE_SIZE when the array holds no such entry
lookupPosition(t, port) ==
    LET hits == { i \in DOMAIN t : t[i].port \in {-1, port} }
                \cup (IF port = 0 THEN (0 .. (PORT_TABLE_SIZE - 1)) \ DOMAIN t ELSE {})
    IN  IF hits = {} THEN PORT_TABLE_SIZE
        ELSE CHOOSE i \in hits : \A j \in hits : i <= j

\* the entry lookupPortInfo returns, the position being inside the array
lookupPortInfo(t, port) == PtRd(t, lookupPosition(t, port))

\* the do loop of the removal: the entries behind position move down by one,
\* the last entry included
RECURSIVE MoveDown(_, _)
MoveDown(t, position) ==
    LET t1 == PtWr(t, position, PtRd(t, position + 1))
    IN  IF PtRd(t1, position + 1).port # -1 THEN MoveDown(t1, position + 1) ELSE t1

\* sim_map_resource (port, 1, RESOURCE_TYPE_IO, routine, FALSE)
sim_map_resource(d, port, routine) ==
    [x \in DOMAIN d \cup {port} |-> IF x = port THEN routine ELSE d[x]]

\* the routine of a mapping
Routine(sip) ==
    IF sip.hasOUT \/ (sip.sio_can_read = 0 /\ sip.sio_cannot_read = 0
                      /\ sip.sio_can_write = 0)
    THEN "sio0d" ELSE "sio0s"

\* toBool
toBool(tf) == IF tf = "T" THEN TRUE ELSE FALSE
IsBool(tf) == tf \in {"T", "F"}

SioEvent(op, port, sip, ret, position) ==
    [op |-> op, port |-> port, sip |-> sip, ret |-> ret, position |-> position]

SioSame == UNCHANGED << port_table, sioBeyond, sioDev >>

\* sio_dev_set_port with a port alone: the mapping of the port is removed
sio_dev_set_port_remove(port) ==
    LET position == lookupPosition(port_table, port)
        old == lookupPortInfo(port_table, port)
    IN  IF old.port = -1
        THEN /\ SioSame
             /\ sioEv' = SioEvent("remove", port, old, "SCPE_ARG", position)
        ELSE /\ port_table' = MoveDown(port_table, position)
             /\ sioDev' = sim_map_resource(sioDev, port, "nulldev")
             /\ UNCHANGED sioBeyond
             /\ sioEv' = SioEvent("remove", port, old, "SCPE_OK", position)

\* sio_dev_set_port with a mapping: the mapping replaces that of the port or
\* is added in front of the last entry
sio_dev_set_port_add(p, line, canRead, cannotRead, canWrite, hasReset, reset, hasOUT) ==
    LET port == p % 256
        sip == SIP(port, line, canRead, cannotRead, canWrite, toBool(hasReset),
                   reset, toBool(hasOUT), FALSE)
        position == lookupPosition(port_table, port)
        old == lookupPortInfo(port_table, port)
    IN  IF ~IsBool(hasReset) \/ ~IsBool(hasOUT)
        THEN /\ SioSame
             /\ sioEv' = SioEvent("add", p, sip, "SCPE_ARG", 0)
        ELSE /\ port_table' =
                   PtWr(IF old.port = port THEN port_table
                        ELSE PtWr(port_table, position + 1, old),
                        position, sip)
             /\ sioBeyond' = (sioBeyond \/ (old.port # port
                                            /\ position + 1 >= PORT_TABLE_SIZE))
             /\ sioDev' = sim_map_resource(sioDev, port, Routine(sip))
             /\ sioEv' = SioEvent("add", p, sip, "SCPE_OK", position)

\* sio0s and sio0d up to their assertion:
\* SIO_PORT_INFO spi = lookupPortInfo(port, &ch); assert(spi.port == port)
sio0(caller, port) ==
    LET spi == lookupPortInfo(port_table, port)
    IN  SioEvent(caller, port, spi, IF spi.port = port THEN "ok" ELSE "abort",
                 lookupPosition(port_table, port))

\* an assertion has failed: the simulator has ended
SioAborted == sioEv.ret = "abort"

SioPortsInit ==
    /\ port_table = [i \in 0 .. (Len(port_table_init) - 1) |-> port_table_init[i + 1]]
    /\ sioBeyond = FALSE
    /\ sioDev = [x \in {} |-> ""]
    /\ sioEv = SioEvent("init", 0, ZeroSIP, "SCPE_OK", 0)
    /\ sioInterrupt = FALSE
    /\ sioActive = FALSE

\* the serial I/O devices after construction, the pseudo device left alone
SioRegsInit == SioPortsInit /\ SimhIdle

--------------------------------------------------------------------------
(* The environment: the bytes a guest writes, by the place in the protocol *)
CmdBytes == {HDSK_RESET, HDSK_READ, HDSK_WRITE, HDSK_PARAM}
UnitBytes == {0, 1, 99}
SectorBytes == {9}
TrackLoBytes == {3}
TrackHiBytes == {1}
DmaLoBytes == {192}
DmaHiBytes == {1, 255}
AttachChoices == {<<0, 4096>>, <<0, 131072>>, <<1, 0>>, <<1, HDSK_CAPACITY>>}
WlkUnits == {1}
DetachUnits == {1}
MaxTransfers == 1
Garbage == {0, 2147483647}
GarbageBytes == {0, 255}
MaxParamCount == 20

OutBytes ==
    IF hdskLastCommand = HDSK_PARAM THEN UnitBytes
    ELSE IF hdskLastCommand \in {HDSK_READ, HDSK_WRITE}
    THEN CASE hdskCommandPosition = 0 -> UnitBytes
           [] hdskCommandPosition = 1 -> SectorBytes
           [] hdskCommandPosition = 2 -> TrackLoBytes
           [] hdskCommandPosition = 3 -> TrackHiBytes
           [] hdskCommandPosition = 4 -> DmaLoBytes
           [] hdskCommandPosition = 5 -> DmaHiBytes
           [] OTHER -> CmdBytes
    ELSE CmdBytes

IsTransfer ==
    hdskCommandPosition = 6 /\ hdskLastCommand \in {HDSK_READ, HDSK_WRITE}

\* a run is followed up to its MaxTransfers-th READ/WRITE transfer, or to
\* the reset sequence
HdskLive == hdskXfers < MaxTransfers /\ hdskResets = 0

HdskOut ==
    /\ HdskLive
    /\ \E data \in OutBytes : hdsk_out(data)
    /\ UNCHANGED << hdskXfers, hdskResets >>
    /\ UNCHANGED << mtVars, tmVars, sioVars >>

HdskIn ==
    /\ HdskLive
    /\ hdskLastCommand = HDSK_PARAM => paramcount < MaxParamCount
    /\ hdskXfers' = IF IsTransfer THEN hdskXfers + 1 ELSE hdskXfers
    /\ UNCHANGED hdskResets
    /\ \E gs \in Garbage, gt \in Garbage, gb \in GarbageBytes : hdsk_in(gs, gt, gb)
    /\ UNCHANGED << mtVars, tmVars, sioVars >>

HdskConfig(units) ==
    /\ HdskLive
    /\ hdsk_unit' = units
    /\ hdskRet' = 0
    /\ hdskIO' = <<>>
    /\ hdskCall' = Call("cfg", 0)
    /\ UNCHANGED << hdskXfers, hdskResets >>
    /\ UNCHANGED << mtVars, tmVars, sioVars >>
    /\ UNCHANGED << hdskLastCommand, hdskCommandPosition, paramcount, selectedDisk,
                    selectedSector, selectedTrack, selectedDMA, hdskbuf, MZ >>

HdskAttach ==
    \E c \in AttachChoices :
        /\ ~hdsk_unit[c[1]].att
        /\ HdskConfig([hdsk_unit EXCEPT ![c[1]] = hdsk_attach(c[1], c[2])])

HdskDetach ==
    \E u \in DetachUnits :
        /\ hdsk_unit[u].att
        /\ HdskConfig(hdsk_detach(u))

HdskSetWlk ==
    \E u \in WlkUnits, b \in BOOLEAN :
        /\ hdsk_unit[u].wlk # b
        /\ HdskConfig(hdsk_set_wlk(u, b))

\* the reset sequence of the guest, ld b,32 ... out (0fdh),a: one more of its
\* writes of HDSK_RESET; it starts in any state and nothing comes between
HdskResetCount == 32

HdskReset ==
    /\ hdskResets < HdskResetCount
    /\ hdsk_out(HDSK_RESET)
    /\ hdskResets' = hdskResets + 1
    /\ UNCHANGED hdskXfers
    /\ UNCHANGED << mtVars, tmVars, sioVars >>


(***************************************************************************)
(* The environment of the tape controller.  A run carries out one script:  *)
(* the IOTs and memory stores of a program and the attach, detach, lock    *)
(* and reset commands of the operator, in their order.  The event queue    *)
(* fires the service of an active unit at any point of the script.         *)
(***************************************************************************)
MkCU(u, f, t, ie) == u * 32768 + f * 512 + t * 64 + ie * 256

Step(k, a, b) == [k |-> k, a |-> a, b |-> b]

MTTR == Step("iot", 1, 0)
MTCR == Step("iot", 17, 0)
MTSF == Step("iot", 33, 0)
MTRC == Step("iot", 2, 0)
MTRS == Step("iot", 34, 0)
MTAF == Step("iot", 18, 0)
MTCM(ac) == Step("iot", 20, ac)
MTLC(ac) == Step("iot", 22, ac)
MTGO == Step("iot", 4, 0)
\* M[MT_WC] = -n (n = 0 is the count 2^18), M[MT_MA] = 0: the buffer is M[1 ..]
Setup(n) == Step("setup", (WORDMASK + 1 - n) % (WORDMASK + 1), 0)
FillBuf == Step("fill", 218321, 4167)
\* the operator attaches image i of MtImages to unit u
Att(u, i) == Step("attach", u, i)
Det(u) == Step("detach", u, 0)
Wlk(u) == Step("wlk", u, 1)
Unlk(u) == Step("wlk", u, 0)
Reset == Step("reset", 0, 0)

\* the program sets the count, loads function f on unit u (drive type t) and
\* starts it
Do(u, f, t, n) == << Setup(n), MTLC(MkCU(u, f, t, 0)), MTGO >>

\* images: 1 an empty tape; 2 a 4-byte record, then a file mark, then the
\* end of the tape; 3 a 2-byte record, a 3-byte record with its junk byte, a
\* file mark, a 2-byte record
MtImages ==
    << << >>,
       LE32(4) \o << 1, 2, 3, 4 >> \o LE32(4) \o LE32(0),
       LE32(2) \o << 5, 6 >> \o LE32(2) \o LE32(3) \o << 7, 8, 9, 0 >> \o LE32(3)
           \o LE32(0) \o LE32(2) \o << 10, 11 >> \o LE32(2) >>

MaxWords == 2
MtFuncs == 0 .. 7
MtTypes == {0, TY_9TK}

\* write a record, reposition, read it back
RoundTrips ==
    { pre \o Do(0, FN_WRITE, t1, n1) \o Do(0, back, 0, 1) \o Do(0, f2, t2, n2) :
        pre \in { << Att(0, 1) >>, << Att(0, 1), FillBuf >> },
        t1 \in MtTypes, t2 \in MtTypes,
        n1 \in 1 .. MaxWords, n2 \in 1 .. MaxWords,
        back \in {FN_REWIND, FN_SPACER}, f2 \in {FN_READ, FN_CMPARE} }

\* any two functions in a row on the image, or on no image
Pairs ==
    { pre \o Do(0, f1, 0, 1) \o Do(0, f2, t, n) :
        pre \in { << >>, << Att(0, 2) >>,
                  << Att(0, 2), Wlk(0) >> },
        f1 \in MtFuncs, f2 \in MtFuncs, t \in MtTypes, n \in 0 .. MaxWords }

\* spacing with the count 2^18, then a second function
Spacings ==
    { << Att(0, 2) >> \o Do(0, f1, 0, n) \o << MTLC(MkCU(0, f2, 0, 0)), MTGO >> :
        f1 \in {FN_SPACEF, FN_READ}, f2 \in {FN_SPACEF, FN_SPACER},
        n \in 0 .. MaxWords }

\* two units: unit 0 is spacing or rewinding when a function is started on
\* unit 1
TwoUnits ==
    { << Att(0, 2), Att(1, 2) >> \o Do(0, FN_SPACEF, 0, 1)
        \o Do(0, f1, 0, 1) \o Do(1, f2, 0, 1) :
        f1 \in {FN_REWIND, FN_SPACEF}, f2 \in {FN_READ, FN_REWIND, FN_SPACEF} }

\* the operator or the program steps in while a function is under way
Meddling ==
    { << Att(0, 2) >> \o Do(0, f, 0, 1) \o m \o << MTSF, MTRS >> :
        f \in {FN_READ, FN_WRITE, FN_SPACEF},
        m \in { << Det(0) >>, << Wlk(0) >>, << Reset >>, << MTAF >>,
                << MTCM(MkCU(0, FN_WREOF, 0, 1)) >>,
                << MTLC(MkCU(1, FN_REWIND, 0, 0)) >>,
                << Det(0), Att(0, 1) >>,
                << MTTR, MTCR, MTRC >> } }

\* write two words, rewind, change a word of the buffer or none, compare
Compares ==
    { << Att(0, 1), FillBuf >> \o Do(0, FN_WRITE, t, 2) \o Do(0, FN_REWIND, 0, 1)
        \o << Step("fill", a, b) >> \o Do(0, FN_CMPARE, t, 2) :
        t \in MtTypes, a \in {218321, 7}, b \in {4167, 5} }

\* spacing forward and then backward over the records of image 3
BackAndForth ==
    { << Att(0, 3) >> \o Do(0, FN_SPACEF, 0, n1) \o Do(0, f2, 0, n2) :
        n1 \in 0 .. 3, f2 \in {FN_SPACEF, FN_SPACER}, n2 \in 0 .. 3 }

MtScripts ==
    RoundTrips \cup Pairs \cup Spacings \cup TwoUnits \cup Meddling \cup Compares
    \cup BackAndForth

MtInit == MtRegsInit /\ mtScript \in MtScripts

\* the tape controller left alone
MtIdle == MtRegsInit /\ mtScript = << >>

SetMt(S) ==
    /\ mt_cu' = S.cu
    /\ mt_sta' = S.sta
    /\ int_req' = S.int
    /\ mt_unit' = S.units
    /\ M' = S.M

Entry(op, u, pulse, AC, r) ==
    Ev(op, u, pulse, AC, r.ret, r.f, r.how, r.words, r.stores, mt_cu, mt_sta,
       MemRd(M, MT_WC), mt_unit[u], mtWritten)

Plain(S) == Done(S, "SCPE_OK", 0, "", <<>>, <<>>)

\* the step of the script that comes next
Due(k) == mtScript # << >> /\ Head(mtScript).k = k

MtIOT ==
    /\ Due("iot")
    /\ LET pulse == Head(mtScript).a
           AC == Head(mtScript).b
           r == mt(MtState, pulse, AC)
       IN  /\ SetMt(r.S)
           /\ mtEv' = Entry(IF pulse = 4 THEN "go" ELSE "iot", GET_UNIT(mt_cu),
                            pulse, AC, [Plain(r.S) EXCEPT !.ret = r.ret])
    /\ mtScript' = Tail(mtScript)
    /\ UNCHANGED mtWritten
    /\ LET u == GET_UNIT(mt_cu)
           r == mt(MtState, Head(mtScript).a, Head(mtScript).b)
       IN  mtGo' = IF Head(mtScript).a = 4 /\ ~mt_unit[u].active /\ r.S.units[u].active
                   THEN [mtGo EXCEPT ![u] = mt_cu] ELSE mtGo
    /\ UNCHANGED << hdskVars, tmVars, sioVars >>

\* sim_process_event: the unit leaves the queue and its service runs; a run
\* that starts a transfer of more than MaxWords words is not followed
MtService ==
    /\ \E u \in MtUnits : \E g \in GarbageBytes :
          /\ mt_unit[u].active
          /\ (/\ mt_unit[u].att
              /\ STA_REW \notin mt_unit[u].USTAT
              /\ GET_CMD(mt_cu) \in {FN_READ, FN_CMPARE, FN_WRITE})
             => MtWords(M) <= MaxWords
          /\ LET r == mt_svc([MtState EXCEPT !.units[u].active = FALSE], u, g) IN
             /\ SetMt(r.S)
             /\ mtEv' = Entry("svc", u, 0, 0, r)
             /\ mtWritten' =
                   IF r.f = FN_WRITE
                   THEN [unit |-> u, pos |-> mt_unit[u].pos, wc |-> MtWords(M),
                         packed |-> PACKED(mt_cu), words |-> r.words]
                   ELSE IF r.f = FN_WREOF /\ mtWritten.unit = u THEN NoRecord
                   ELSE mtWritten
    /\ UNCHANGED << mtScript, mtGo >>
    /\ UNCHANGED << hdskVars, tmVars, sioVars >>

MtConfig(op, u, S) ==
    /\ SetMt(S)
    /\ mtEv' = Entry(op, u, 0, 0, Plain(S))
    /\ mtWritten' = IF op \in {"attach", "detach"} /\ mtWritten.unit = u
                    THEN NoRecord ELSE mtWritten
    /\ UNCHANGED mtGo
    /\ mtScript' = Tail(mtScript)
    /\ UNCHANGED << hdskVars, tmVars, sioVars >>

\* the program stores the word count and the current address
MtSetup ==
    /\ Due("setup")
    /\ MtConfig("setup", 0,
                [MtState EXCEPT !.M = MemWr(MemWr(M, MT_WC, Head(mtScript).a),
                                            MT_MA, Head(mtScript).b)])

\* the program fills the first two words of the buffer
MtFill ==
    /\ Due("fill")
    /\ MtConfig("fill", 0,
                [MtState EXCEPT !.M = MemWr(MemWr(M, 1, Head(mtScript).a),
                                            2, Head(mtScript).b)])

MtAttach ==
    /\ Due("attach")
    /\ ~mt_unit[Head(mtScript).a].att
    /\ MtConfig("attach", Head(mtScript).a,
                mt_attach(MtState, Head(mtScript).a, MtImages[Head(mtScript).b]))

MtDetach ==
    /\ Due("detach")
    /\ mt_unit[Head(mtScript).a].att
    /\ MtConfig("detach", Head(mtScript).a, mt_detach(MtState, Head(mtScript).a))

MtSetWlk ==
    /\ Due("wlk")
    /\ MtConfig("wlk", Head(mtScript).a,
                mt_set_wlk(MtState, Head(mtScript).a, Head(mtScript).b = 1))

MtReset ==
    /\ Due("reset")
    /\ MtConfig("reset", 0, mt_reset(MtState))

(***************************************************************************)
(* The environment of the multiplexor.  A run carries out one script: what *)
(* the operator (attach, detach, disconnect), the peers (connect, send,    *)
(* close, take output) and the device (write a character) do, in their     *)
(* order.  The polls of the device's service routine and its reads of a    *)
(* character come at any point of the script.                              *)
(***************************************************************************)
TmStep(k, a, b, bs) == [k |-> k, a |-> a, b |-> b, bs |-> bs]

TAttach == TmStep("attach", 0, 0, << >>)
TDetach == TmStep("detach", 0, 0, << >>)
\* a client at address ip asks for a connection
TConnect(ip) == TmStep("connect", ip, 0, << >>)
\* the peer of line i sends the bytes bs, closes, takes up to n more bytes
TData(i, bs) == TmStep("data", i, 0, bs)
TClose(i) == TmStep("close", i, 0, << >>)
TRoom(i, n) == TmStep("room", i, n, << >>)
\* the device writes chr to line i
TPut(i, chr) == TmStep("put", i, chr, << >>)
TDscln(i) == TmStep("dscln", i, 0, << >>)

\* n times x
Rep(n, x) == [k \in 1 .. n |-> x]

\* the bytes and the protocol sequences the received streams are made of
RxBytes == { 65, 13, 0, UByte(TN_BRK), UByte(TN_WILL), UByte(TN_WONT), UByte(TN_DO),
             UByte(TN_IAC) }
RxTokens ==
    { << 65 >>, << 13, 10 >>, << 255, 255 >>, << 255, 243 >>, << 255, 251, 1 >>,
      << 255, 251, 0 >>, << 255, 252, 0 >>, << 255, 252, 3 >>, << 255, 253, 0 >>,
      << 255, 254, 1 >>, << 255, 241 >> }

\* a line is attached and connected; its peer takes no output yet
Online == << TAttach, TConnect(10), TRoom(0, 0) >>

\* the streams a line receives: all of up to three bytes, two protocol
\* sequences and a letter, the examples of the manual, a buffer load
RxStreams ==
    { << a >> : a \in RxBytes } \cup { << a, b >> : a \in RxBytes, b \in RxBytes }
    \cup { << a, b, c >> : a \in RxBytes, b \in RxBytes, c \in RxBytes }
    \cup { t1 \o t2 \o << 66 >> : t1 \in RxTokens, t2 \in RxTokens }
    \cup { << 65, 255, 255, 66 >>, << 255, 251, 1, 67 >> }

\* a stream arrives at once, in two parts, or byte by byte
Arrivals(s) ==
    { << TData(0, s) >>, [k \in 1 .. Len(s) |-> TData(0, << s[k] >>)] }
    \cup { << TData(0, SubSeq(s, 1, k)), TData(0, SubSeq(s, k + 1, Len(s))) >> :
             k \in 1 .. (Len(s) - 1) }

\* one line receives a stream
RxScripts ==
    { Online \o d : d \in UNION { Arrivals(s) : s \in RxStreams } }
    \cup { Online \o << TData(0, Rep(TMXR_MAXBUF - TMXR_GUARD - 1, 65) \o << 255 >>),
                        TData(0, << 255 >> \o Rep(TMXR_GUARD - 1, 66)
                                 \o << 255, 255 >>),
                        TData(0, << 255, 255, 67 >>) >> }

\* clients come and go
AcceptScripts ==
    { << TAttach >> \o Rep(k, TConnect(10)) \o x \o Rep(m, TConnect(11)) :
        k \in { NumLines - 1, NumLines, NumLines + 1 }, m \in { 1, 2 },
        x \in { << >>, << TClose(0) >>, << TDscln(0) >>, << TClose(NumLines - 1) >>,
                << TData(0, << 65, 255 >>), TPut(0, 66), TClose(0) >>,
                << TDetach, TAttach >> } }

\* two lines receive; one of them loses its peer
PairScripts ==
    { << TAttach, TConnect(10), TConnect(11), TData(0, s0), TData(1, s1), TPut(1 - i, 255),
         TClose(i), TData(1 - i, << 66 >>) >> :
        s0 \in { << >>, << 65 >>, << 65, 255 >> }, s1 \in { << >>, << 255, 251 >> },
        i \in { 0, 1 } }

\* the device writes; the peer takes the output late, in parts, or leaves
TxScripts ==
    { Online \o Rep(n, TPut(0, 65)) \o << TPut(0, c) >> \o x
             \o << TPut(0, 255), TPut(0, 66), TRoom(0, TMXR_MAXBUF) >> :
        n \in { 0, TMXR_MAXBUF - TMXR_GUARD - 2, TMXR_MAXBUF - TMXR_GUARD,
                TMXR_MAXBUF - 2, TMXR_MAXBUF - 1 },
        c \in { 65, 255 },
        x \in { << >>, << TRoom(0, 1) >>, << TRoom(0, 2), TPut(0, 255) >>,
                << TRoom(0, TMXR_MAXBUF) >>, << TClose(0) >>, << TDscln(0) >> } }

TmScripts == RxScripts \cup AcceptScripts \cup PairScripts \cup TxScripts

TmInit == TmRegsInit /\ tmScript \in TmScripts

\* the multiplexor left alone
TmIdle == TmRegsInit /\ tmScript = << >>

TmDue(k) == tmScript # << >> /\ Head(tmScript).k = k

\* the operator attaches the multiplexor to a port (tmxr_attach)
TmAttach ==
    /\ TmDue("attach")
    /\ tm_master = 0
    /\ tmSock' = Append(tmSock, SockInit)
    /\ tm_master' = Len(tmSock) + 1
    /\ tm_ldsc' = tmxr_open_master(tm_ldsc)
    /\ tmEv' = TmEvent("attach", 0, 0, NoChar, Len(tmSock) + 1, NoRd, NoGot)
    /\ tmScript' = Tail(tmScript)
    /\ UNCHANGED << tmBacklog, tmIn, tmOut >>
    /\ UNCHANGED << hdskVars, mtVars, sioVars >>

\* the operator detaches it (tmxr_detach)
TmDetach ==
    /\ TmDue("detach")
    /\ tm_master # 0
    /\ LET r == tmxr_close_master(tm_ldsc, tmSock, tm_master) IN
       /\ tm_ldsc' = r.ldsc
       /\ tmSock' = r.socks
    /\ tm_master' = 0
    /\ tmBacklog' = << >>
    /\ tmEv' = TmEvent("detach", 0, 0, NoChar, 0, NoRd, NoGot)
    /\ tmScript' = Tail(tmScript)
    /\ UNCHANGED << tmIn, tmOut >>
    /\ UNCHANGED << hdskVars, mtVars, sioVars >>

\* SET <dev> DISCONNECT=line
TmDscln ==
    /\ TmDue("dscln")
    /\ LET r == tmxr_dscln(tm_ldsc, tmSock, Head(tmScript).a) IN
       /\ tm_ldsc' = r.ldsc
       /\ tmSock' = r.socks
    /\ tmEv' = TmEvent("dscln", Head(tmScript).a, 0, NoChar, 0, NoRd, NoGot)
    /\ tmScript' = Tail(tmScript)
    /\ UNCHANGED << tm_master, tmBacklog, tmIn, tmOut >>
    /\ UNCHANGED << hdskVars, mtVars, sioVars >>

\* a client connects to the listening port
TmConnect ==
    /\ TmDue("connect")
    /\ tm_master # 0
    /\ tmBacklog' = Append(tmBacklog, Head(tmScript).a)
    /\ tmScript' = Tail(tmScript)
    /\ UNCHANGED << tm_master, tm_ldsc, tmSock, tmIn, tmOut, tmEv >>
    /\ UNCHANGED << hdskVars, mtVars, sioVars >>

\* the peer of a connected line sends bytes
TmData ==
    /\ TmDue("data")
    /\ tm_ldsc[Head(tmScript).a].conn # 0
    /\ tmSock' = [tmSock EXCEPT ![tm_ldsc[Head(tmScript).a].conn].inq =
                                   @ \o Head(tmScript).bs]
    /\ tmScript' = Tail(tmScript)
    /\ UNCHANGED << tm_master, tm_ldsc, tmBacklog, tmIn, tmOut, tmEv >>
    /\ UNCHANGED << hdskVars, mtVars, sioVars >>

\* the peer of a connected line closes the connection
TmClose ==
    /\ TmDue("close")
    /\ tm_ldsc[Head(tmScript).a].conn # 0
    /\ tmSock' = [tmSock EXCEPT ![tm_ldsc[Head(tmScript).a].conn].eof = TRUE]
    /\ tmScript' = Tail(tmScript)
    /\ UNCHANGED << tm_master, tm_ldsc, tmBacklog, tmIn, tmOut, tmEv >>
    /\ UNCHANGED << hdskVars, mtVars, sioVars >>

\* the peer of a connected line is ready to take so many bytes
TmRoom ==
    /\ TmDue("room")
    /\ tm_ldsc[Head(tmScript).a].conn # 0
    /\ tmSock' = [tmSock EXCEPT ![tm_ldsc[Head(tmScript).a].conn].room =
                                   Head(tmScript).b]
    /\ tmScript' = Tail(tmScript)
    /\ UNCHANGED << tm_master, tm_ldsc, tmBacklog, tmIn, tmOut, tmEv >>
    /\ UNCHANGED << hdskVars, mtVars, sioVars >>

\* the device writes a character to a line
TmPutc ==
    /\ TmDue("put")
    /\ LET i == Head(tmScript).a IN
       /\ tm_ldsc' = [tm_ldsc EXCEPT ![i] = tmxr_putc_ln(@, Head(tmScript).b)]
       /\ tmEv' = TmEvent("putc", i, 0, NoChar, 0, NoRd, NoGot)
    /\ tmScript' = Tail(tmScript)
    /\ UNCHANGED << tm_master, tmSock, tmBacklog, tmIn, tmOut >>
    /\ UNCHANGED << hdskVars, mtVars, sioVars >>

\* the service routine polls for a connection (sim_accept_conn on the
\* listening socket); nobody waiting, the call changes nothing
TmPollConn ==
    /\ tm_master # 0
    /\ IF tmBacklog = << >>
       THEN UNCHANGED tmVars
       ELSE LET newsock == Len(tmSock) + 1
                r == tmxr_poll_conn(tm_ldsc, Append(tmSock, SockInit), newsock,
                                    Head(tmBacklog))
            IN  /\ tm_ldsc' = r.ldsc
                /\ tmSock' = r.socks
                /\ tmBacklog' = Tail(tmBacklog)
                /\ tmEv' = TmEvent("poll_conn", 0, r.ret, NoChar, newsock, NoRd, NoGot)
                /\ tmIn' = IF r.ret >= 0 THEN [tmIn EXCEPT ![r.ret] = << >>] ELSE tmIn
                /\ tmOut' = IF r.ret >= 0 THEN [tmOut EXCEPT ![r.ret] = << >>] ELSE tmOut
                /\ UNCHANGED << tm_master, tmScript >>
    /\ UNCHANGED << hdskVars, mtVars, sioVars >>

\* the caller enables receive on the line tmxr_poll_conn has just returned
TmSetRcve ==
    /\ tmEv.op = "poll_conn"
    /\ tmEv.ret >= 0
    /\ tm_ldsc[tmEv.ret].rcve = 0
    /\ tm_ldsc' = [tm_ldsc EXCEPT ![tmEv.ret].rcve = 1]
    /\ tmEv' = TmEvent("rcve", tmEv.ret, 0, NoChar, 0, NoRd, NoGot)
    /\ UNCHANGED << tm_master, tmSock, tmBacklog, tmIn, tmOut, tmScript >>
    /\ UNCHANGED << hdskVars, mtVars, sioVars >>

\* what the reads of one tmxr_poll_rx return, line by line (0 for a line
\* that is not read)
RxResults ==
    [i \in TmLines |->
        IF ReadMax(tm_ldsc[i]) < 0 THEN 0
        ELSE sim_read_sock(tmSock, tm_ldsc[i].conn, ReadMax(tm_ldsc[i]))]

\* void tmxr_poll_rx (TMXR *mp)
TmPollRx ==
    /\ tm_master # 0
    /\ LET rd == RxResults
            got == [i \in TmLines |->
                      IF rd[i] > 0 THEN SubSeq(tmSock[tm_ldsc[i].conn].inq, 1, rd[i])
                      ELSE << >>]
            ldsc1 == [i \in TmLines |->
                        ZeroPtrs(poll_rx_ln(tm_ldsc[i], rd[i], got[i]))]
            RECURSIVE Socks(_, _)
            Socks(socks, n) ==
                IF n = 0 THEN socks
                ELSE LET s == Socks(socks, n - 1)
                         c == tm_ldsc[n - 1].conn
                     IN  IF rd[n - 1] > 0
                         THEN [s EXCEPT ![c].inq = SubSeq(@, rd[n - 1] + 1, Len(@))]
                         ELSE IF rd[n - 1] < 0 THEN sim_close_sock(s, c)
                         ELSE s
        IN  IF ldsc1 = tm_ldsc /\ \A i \in TmLines : rd[i] = 0
            THEN UNCHANGED tmVars
            ELSE /\ tm_ldsc' = ldsc1
                 /\ tmSock' = Socks(tmSock, NumLines)
                 /\ tmIn' = [i \in TmLines |-> tmIn[i] \o got[i]]
                 /\ tmEv' = TmEvent("poll_rx", 0, 0, NoChar, 0, rd, got)
                 /\ UNCHANGED << tm_master, tmBacklog, tmOut, tmScript >>
    /\ UNCHANGED << hdskVars, mtVars, sioVars >>

\* the device reads a character from a line
TmGetc ==
    /\ tm_master # 0
    /\ \E i \in TmLines : \E stale \in GarbageBytes :
        LET r == tmxr_getc_ln(tm_ldsc[i], stale) IN
        IF r.lp = tm_ldsc[i] /\ ~r.chr.valid
        THEN UNCHANGED tmVars
        ELSE /\ tm_ldsc' = [tm_ldsc EXCEPT ![i] = r.lp]
             /\ tmOut' = IF r.chr.valid THEN [tmOut EXCEPT ![i] = Append(@, r.chr)]
                         ELSE tmOut
             /\ tmEv' = TmEvent("getc", i, 0, r.chr, 0, NoRd, NoGot)
             /\ UNCHANGED << tm_master, tmSock, tmBacklog, tmIn, tmScript >>
    /\ UNCHANGED << hdskVars, mtVars, sioVars >>

\* void tmxr_poll_tx (TMXR *mp)
TmPollTx ==
    /\ tm_master # 0
    /\ LET Queued(i) == tm_ldsc[i].conn # 0 /\ tm_ldsc[i].txbpi - tm_ldsc[i].txbpr # 0
           sb == [i \in TmLines |->
                    IF Queued(i)
                    THEN SendResult(tmSock, tm_ldsc[i].conn,
                                    tm_ldsc[i].txbpi - tm_ldsc[i].txbpr)
                    ELSE 0]
           ldsc1 == [i \in TmLines |-> poll_tx_ln(tm_ldsc[i], sb[i])]
           RECURSIVE Socks(_, _)
           Socks(socks, n) ==
               IF n = 0 THEN socks
               ELSE LET s == Socks(socks, n - 1)
                        l == tm_ldsc[n - 1]
                    IN  IF sb[n - 1] > 0
                        THEN [s EXCEPT ![l.conn].room = @ - sb[n - 1],
                                       ![l.conn].out = Append(@,
                                           Bytes(SubSeq(l.txb, l.txbpr + 1,
                                                        l.txbpr + sb[n - 1])))]
                        ELSE s
       IN  IF ldsc1 = tm_ldsc /\ \A i \in TmLines : sb[i] = 0
           THEN UNCHANGED tmVars
           ELSE /\ tm_ldsc' = ldsc1
                /\ tmSock' = Socks(tmSock, NumLines)
                /\ tmEv' = TmEvent("poll_tx", 0, 0, NoChar, 0, sb, NoGot)
                /\ UNCHANGED << tm_master, tmBacklog, tmIn, tmOut, tmScript >>
    /\ UNCHANGED << hdskVars, mtVars, sioVars >>

(***************************************************************************)
(* The environment of the port mapping.  A run carries out one script of   *)
(* SET SIO PORT commands of the operator.  A run is not followed behind a  *)
(* store made behind the array: what the simulator does then is undefined. *)
(***************************************************************************)
SioAddCmd(p, line, canRead, hasOUT) ==
    [k |-> "add", port |-> p, line |-> line, canRead |-> canRead, hasOUT |-> hasOUT]

SioRemoveCmd(p) ==
    [k |-> "remove", port |-> p, line |-> 0, canRead |-> 0, hasOUT |-> "F"]

\* 16 is a built-in port, 32 and 33 are not; 288 is 32 with a bit above the
\* low eight; "x" is no truth value
SioCmds ==
    { SioAddCmd(16, 1, SIO_CAN_READ, "T"), SioAddCmd(32, 0, SIO_CAN_READ, "F"),
      SioAddCmd(32, 1, 0, "F"), SioAddCmd(288, 2, SIO_CAN_READ, "T"),
      SioAddCmd(33, 0, SIO_CAN_READ, "F"), SioAddCmd(33, 0, SIO_CAN_READ, "x"),
      SioRemoveCmd(16), SioRemoveCmd(32), SioRemoveCmd(33), SioRemoveCmd(0),
      SioRemoveCmd(288), SioRemoveCmd(-1) }

\* any three commands in a row
SioShort == { << a, b, c >> : a \in SioCmds, b \in SioCmds, c \in SioCmds }

\* the ports without a built-in mapping
FreePorts ==
    (0 .. 255) \ { port_table_init[i].port : i \in 1 .. Len(port_table_init) }

\* a mapping for every port that has none, in the order of the ports, then
\* the removal of one
SioFill ==
    [i \in 1 .. Cardinality(FreePorts) |->
        SioAddCmd(CHOOSE p \in FreePorts :
                      Cardinality({ q \in FreePorts : q < p }) = i - 1,
                  0, SIO_CAN_READ, "F")]
    \o << SioRemoveCmd(255) >>

SioScripts == SioShort \cup { SioFill }

SioInit == SioRegsInit /\ sioScript \in SioScripts

\* the port mapping left alone
SioIdle == SioRegsInit /\ sioScript = << >>

SioDue(k) ==
    sioScript # << >> /\ Head(sioScript).k = k /\ ~sioBeyond /\ ~SioAborted

\* SET SIO PORT=port/line/canRead/0/canWrite/F/0/hasOUT
SioAdd ==
    /\ SioDue("add")
    /\ LET c == Head(sioScript)
       IN  sio_dev_set_port_add(c.port, c.line, c.canRead, 0,
                                IF c.canRead = 0 THEN 0 ELSE SIO_CAN_WRITE,
                                "F", 0, c.hasOUT)
    /\ sioScript' = Tail(sioScript)
    /\ UNCHANGED << sioInterrupt, sioActive, simhVars >>
    /\ UNCHANGED << hdskVars, mtVars, tmVars >>

\* SET SIO PORT=port
SioRemove ==
    /\ SioDue("remove")
    /\ sio_dev_set_port_remove(Head(sioScript).port)
    /\ sioScript' = Tail(sioScript)
    /\ UNCHANGED << sioInterrupt, sioActive, simhVars >>
    /\ UNCHANGED << hdskVars, mtVars, tmVars >>

--------------------------------------------------------------------------
(* The console handlers run: the processor does an IN or an OUT on a port  *)
(* the port mapping has given to sio0s or sio0d, and the service of the    *)
(* unit, scheduled while keyboard interrupts are on, polls port 0.  What   *)
(* the handlers do with the keyboard and the lines behind their assertion  *)
(* has no part in the port mapping and is left out.                        *)
(***************************************************************************)
SioInterruptOn == [k |-> "interrupt", port |-> 0, line |-> 0, canRead |-> 0, hasOUT |-> "F"]
SioInterruptOff == [k |-> "nointerrupt", port |-> 0, line |-> 0, canRead |-> 0, hasOUT |-> "F"]

\* the mapping of port 0 is removed, replaced or put back; keyboard
\* interrupts are switched; other ports come and go
SioSvcCmds ==
    { SioInterruptOn, SioInterruptOff, SioRemoveCmd(0), SioRemoveCmd(16),
      SioAddCmd(0, 0, KBD_HAS_CHAR, "F"), SioAddCmd(32, 0, SIO_CAN_READ, "T") }

SioSvcScripts ==
    { << a, b, c >> : a \in SioSvcCmds, b \in SioSvcCmds, c \in SioSvcCmds }

\* SET SIO INTERRUPT: sio_dev_set_interrupton, then the flag is set
SioSetInterruptOn ==
    /\ SioDue("interrupt")
    /\ sioActive' = TRUE
    /\ sioInterrupt' = TRUE
    /\ sioEv' = SioEvent("interrupt", 0, ZeroSIP, "SCPE_OK", 0)
    /\ sioScript' = Tail(sioScript)
    /\ SioSame
    /\ UNCHANGED simhVars
    /\ UNCHANGED << hdskVars, mtVars, tmVars >>

\* SET SIO NOINTERRUPT: sio_dev_set_interruptoff, then the flag is cleared
SioSetInterruptOff ==
    /\ SioDue("nointerrupt")
    /\ sioActive' = FALSE
    /\ sioInterrupt' = FALSE
    /\ sioEv' = SioEvent("nointerrupt", 0, ZeroSIP, "SCPE_OK", 0)
    /\ sioScript' = Tail(sioScript)
    /\ SioSame
    /\ UNCHANGED simhVars
    /\ UNCHANGED << hdskVars, mtVars, tmVars >>

\* static t_stat sio_svc(UNIT *uptr): sio0s(0, 0, 0), then the unit is
\* activated again if keyboard interrupts are on
SioSvc ==
    /\ sioActive
    /\ ~SioAborted
    /\ ~sioBeyond
    /\ sioEv' = sio0("sio_svc", 0)
    /\ sioActive' = sioInterrupt
    /\ SioSame
    /\ UNCHANGED << sioInterrupt, sioScript, simhVars >>
    /\ UNCHANGED << hdskVars, mtVars, tmVars >>

\* the processor does an IN or an OUT on a port whose routine is sio0s or
\* sio0d
SioIO ==
    /\ ~SioAborted
    /\ ~sioBeyond
    /\ \E port \in DOMAIN sioDev :
          /\ sioDev[port] \in { "sio0s", "sio0d" }
          /\ sioEv' = sio0(sioDev[port], port)
    /\ SioSame
    /\ UNCHANGED << sioInterrupt, sioActive, sioScript, simhVars >>
    /\ UNCHANGED << hdskVars, mtVars, tmVars >>

--------------------------------------------------------------------------
(* The environment of the pseudo device.  A run carries out one program:   *)
(* accesses that leave the device in some state, the reset sequence or     *)
(* not, then a command and the reads of its result and one more.           *)
(***************************************************************************)
SimhResetCount == 128

SOut(d) == [k |-> "out", data |-> d]
SIn == [k |-> "in", data |-> 0]

\* the commands that return a result, and the number of bytes each returns
SimhResultCmds ==
    { getSIMHVersionCmd, getClockZSDOSCmd, getClockCPM3Cmd, getBankSelectCmd,
      getCommonCmd, hasBankedMemoryCmd, readStopWatchCmd, getHostOSPathSeparator,
      attachPTRCmd, attachPTPCmd }

SimhResultLen(c) ==
    CASE c = getSIMHVersionCmd -> Len(version)
      [] c = getClockZSDOSCmd -> 6
      [] c = getClockCPM3Cmd -> 5
      [] c \in { getCommonCmd, readStopWatchCmd } -> 2
      [] OTHER -> 1

\* what a program has done before: nothing, a result read in part or not at
\* all, a parameter given in part or not at all, timers started
SimhBefore ==
    { << >>, << SOut(startTimerCmd), SOut(startTimerCmd), SOut(stopTimerCmd) >>,
      << SOut(setTimerDeltaCmd) >>, << SOut(setClockZSDOSCmd), SOut(resetSIMHInterfaceCmd) >>,
      << SOut(setBankSelectCmd) >>, << SOut(printTimeCmd), SIn >>,
      << SOut(resetStopWatchCmd), SOut(showTimerCmd) >> }
    \cup { << SOut(c) >> \o Rep(n, SIn) :
             c \in { getSIMHVersionCmd, getClockZSDOSCmd, getClockCPM3Cmd, getCommonCmd,
                     readStopWatchCmd, getHostOSPathSeparator },
             n \in { 0, 1 } }

SimhScripts ==
    { b \o Rep(n, SOut(resetSIMHInterfaceCmd)) \o << SOut(c) >>
        \o Rep(SimhResultLen(c) + 1, SIn) :
        b \in SimhBefore, n \in { 0, SimhResetCount }, c \in SimhResultCmds }

SimhInit == SimhRegsInit /\ simhEnv \in SimhEnvs /\ simhScript \in SimhScripts

SimhParamCmds ==
    { setClockZSDOSCmd, setClockCPM3Cmd, setBankSelectCmd, setTimerDeltaCmd,
      setTimerInterruptAdrCmd }

\* the program does an OUT on port 0xfe
SimhOut ==
    /\ simhScript # << >>
    /\ Head(simhScript).k = "out"
    /\ LET data == Head(simhScript).data
           isCmd == simh.lastCommand \notin SimhParamCmds
       IN  /\ simh' = simh_out(simh, data, simhEnv)
           /\ simhEv' = [SimhEvent("out", data, 0, IF isCmd THEN data ELSE -1, simh,
                                   IF data = resetSIMHInterfaceCmd
                                   THEN simhEv.resets + 1 ELSE 0,
                                   << >>)
                         EXCEPT !.resets = IF @ > SimhResetCount THEN SimhResetCount ELSE @]
    /\ simhScript' = Tail(simhScript)
    /\ UNCHANGED simhEnv
    /\ UNCHANGED << port_table, sioBeyond, sioDev, sioEv, sioInterrupt, sioActive, sioScript >>
    /\ UNCHANGED << hdskVars, mtVars, tmVars >>

\* the program does an IN on port 0xfe
SimhIn ==
    /\ simhScript # << >>
    /\ Head(simhScript).k = "in"
    /\ LET r == simh_in(simh, simhEnv)
       IN  /\ simh' = r.s
           /\ simhEv' = [simhEv EXCEPT !.op = "in", !.data = 0, !.result = r.result,
                                       !.resets = 0, !.reads = Append(@, r.result)]
    /\ simhScript' = Tail(simhScript)
    /\ UNCHANGED simhEnv
    /\ UNCHANGED << port_table, sioBeyond, sioDev, sioEv, sioInterrupt, sioActive, sioScript >>
    /\ UNCHANGED << hdskVars, mtVars, tmVars >>

SimhNext == SimhOut \/ SimhIn

--------------------------------------------------------------------------
HdskNext == HdskOut \/ HdskIn \/ HdskAttach \/ HdskDetach \/ HdskSetWlk

MtNext ==
    MtIOT \/ MtService \/ MtSetup \/ MtFill \/ MtAttach \/ MtDetach \/ MtSetWlk \/ MtReset

TmNext ==
    \/ TmAttach \/ TmDetach \/ TmDscln \/ TmConnect \/ TmData \/ TmClose \/ TmRoom
    \/ TmPutc \/ TmPollConn \/ TmSetRcve \/ TmPollRx \/ TmGetc \/ TmPollTx

SioNext == SioAdd \/ SioRemove

SioSvcNext ==
    SioAdd \/ SioRemove \/ SioSetInterruptOn \/ SioSetInterruptOff \/ SioSvc \/ SioIO

vars == << hdskVars, mtVars, tmVars, sioVars >>

Init == HdskInit /\ MtIdle /\ TmIdle /\ SioIdle

SpecHdsk == Init /\ [][HdskNext]_vars

HdskResetNext == HdskNext \/ HdskReset

SpecHdskReset == Init /\ [][HdskResetNext]_vars

InitMt == HdskInit /\ MtInit /\ TmIdle /\ SioIdle

SpecMt == InitMt /\ [][MtNext]_vars

InitTmxr == HdskInit /\ MtIdle /\ TmInit /\ SioIdle

SpecTmxr == InitTmxr /\ [][TmNext]_vars

InitSio == HdskInit /\ MtIdle /\ TmIdle /\ SioInit

SpecSio == InitSio /\ [][SioNext]_vars

--------------------------------------------------------------------------
(* Properties of the hard disk controller *)

\* the step is a read of the disk port / a write of data to it
InStep == hdskCall'.op = "in"
OutStep == hdskCall'.op = "out"
TransferStep(cmd) == InStep /\ IsTransfer /\ hdskLastCommand = cmd

\* the unit a transfer is performed on: the unit byte, 0 if it names no unit
TargetUnit == IF selectedDisk \in HdskUnits THEN selectedDisk ELSE 0

FilesUnchanged == \A u \in HdskUnits : hdsk_unit'[u].file = hdsk_unit[u].file

\* the call just made was a transfer of command cmd
DidTransfer(cmd) ==
    hdskCall.op = "in" /\ hdskCall.cmd = cmd /\ hdskCall.pos = 6

\* C1: a WRITE whose target unit is write-locked returns CPM_ERROR, makes no
\* seek and no write, and leaves the image file of every unit unchanged.
C1_WriteLockedRefused ==
    [][ (TransferStep(HDSK_WRITE) /\ hdsk_unit[TargetUnit].wlk)
        => (/\ hdskRet' = CPM_ERROR
            /\ hdskIO' = <<>>
            /\ FilesUnchanged) ]_vars

C1_Witness ==
    /\ DidTransfer(HDSK_WRITE)
    /\ hdsk_unit[selectedDisk].att
    /\ hdsk_unit[selectedDisk].wlk
    /\ hdsk_unit[selectedDisk].u5 > 0
    /\ hdskRet = CPM_ERROR

\* C2 (as claimed): a READ/WRITE whose unit byte names no unit and whose sector
\* and track are outside unit 0's ranges, with unit 0 attached, is performed on
\* unit 0 at sector 0, track 0, file offset 0, and a READ succeeds; and the
\* sector and track used always lie inside the geometry of the unit used.
C2_RepairAsClaimed ==
    [][ (/\ InStep /\ IsTransfer
         /\ selectedDisk \notin HdskUnits
         /\ hdsk_unit[0].att
         /\ ~(selectedSector < hdsk_unit[0].u4)
         /\ ~(selectedTrack < hdsk_unit[0].u3))
        => (/\ selectedDisk' = 0
            /\ selectedSector' = 0
            /\ selectedTrack' = 0
            /\ \A i \in 1 .. Len(hdskIO') :
                   hdskIO'[i].unit = 0 /\ hdskIO'[i].off = 0
            /\ (hdskLastCommand = HDSK_READ => hdskRet' = CPM_OK)) ]_vars

ParamByte(u, k) ==
    LET d == dpb[hdsk_unit[u].u6 + 1]
        lo(x) == x % 256
        hi(x) == (x \div 256) % 256
    IN  CASE k = 1 -> lo(d.spt)  [] k = 2 -> hi(d.spt)
          [] k = 3 -> d.bsh      [] k = 4 -> d.blm     [] k = 5 -> d.exm
          [] k = 6 -> lo(d.dsm)  [] k = 7 -> hi(d.dsm)
          [] k = 8 -> lo(d.drm)  [] k = 9 -> hi(d.drm)
          [] k = 10 -> d.al0     [] k = 11 -> d.al1
          [] k = 12 -> lo(d.cks) [] k = 13 -> hi(d.cks)
          [] k = 14 -> lo(d.off) [] k = 15 -> hi(d.off)
          [] k = 16 -> d.psh     [] k = 17 -> d.phm
          [] k = 18 -> lo(hdsk_unit[u].u5)
          [] k = 19 -> hdsk_unit[u].u5 \div 256

\* C3: once command byte 4 is pending, a written byte selects the unit and
\* rewinds the result cursor; from there the k-th read (k = 1..19) returns the
\* k-th byte of the unit's descriptor and sector size, the command stays
\* pending up to the 18th read, and the 19th read leaves the sequencer idle,
\* where the next written byte is taken as the command byte.
C3_GetParameters ==
    [][ /\ (OutStep /\ hdskLastCommand = HDSK_PARAM)
           => (/\ paramcount' = 0
               /\ selectedDisk' = hdskCall'.data
               /\ hdskLastCommand' = HDSK_PARAM)
        /\ (/\ InStep /\ hdskLastCommand = HDSK_PARAM
            /\ selectedDisk \in HdskUnits
            /\ paramcount < 19)
           => (/\ paramcount' = paramcount + 1
               /\ hdskRet' = ParamByte(selectedDisk, paramcount + 1)
               /\ hdskLastCommand' =
                     IF paramcount + 1 = 19 THEN HDSK_NONE ELSE HDSK_PARAM
               /\ hdskCommandPosition' = 0)
        /\ (OutStep /\ hdskLastCommand = HDSK_NONE)
           => (hdskLastCommand' = hdskCall'.data /\ hdskCommandPosition' = 0) ]_vars

C3_Witness ==
    /\ hdskCall.op = "in" /\ hdskCall.cmd = HDSK_PARAM
    /\ paramcount = 19
    /\ hdskLastCommand = HDSK_NONE
    /\ selectedDisk = 0
    /\ hdsk_unit[0].att /\ hdsk_unit[0].u6 = 1
    /\ hdskRet = 2

\* C4: a READ/WRITE whose target unit has no image attached returns 1, makes
\* no seek, read or write, changes neither memory nor any unit, and leaves the
\* sequencer idle at position 0.
C4_UnattachedAborts ==
    [][ (InStep /\ IsTransfer /\ ~hdsk_unit[TargetUnit].att)
        => (/\ hdskRet' = CPM_ERROR
            /\ hdskIO' = <<>>
            /\ MZ' = MZ
            /\ hdskbuf' = hdskbuf
            /\ hdsk_unit' = hdsk_unit
            /\ hdskLastCommand' = HDSK_NONE
            /\ hdskCommandPosition' = 0) ]_vars

C4_Witness ==
    /\ hdskCall.op = "in" /\ hdskCall.cmd \in {HDSK_READ, HDSK_WRITE}
    /\ hdskCall.pos = 6
    /\ ~hdsk_unit[selectedDisk].att
    /\ hdsk_unit[selectedDisk].u5 > 0
    /\ hdskRet = CPM_ERROR

\* the read request of the call just made (at most one)
ReadsOf(io) == {i \in 1 .. Len(io) : io[i].op = "read"}
IsShort(r, units) == r.n = 0 \/ r.off + r.n > RunLen(units[r.unit].file)

\* C5: a READ of a sector that lies partly or wholly beyond the end of the
\* image returns 0, leaves the sector's bytes of the buffer all 0xE5 and does
\* not change memory; a READ of a sector inside the image leaves the same
\* bytes in the buffer and in memory at the DMA address.
C5_ShortRead ==
    [][ TransferStep(HDSK_READ)
        => \A i \in ReadsOf(hdskIO') :
             LET r == hdskIO'[i] IN
             IF IsShort(r, hdsk_unit)
             THEN /\ hdskRet' = CPM_OK
                  /\ Slice(hdskbuf', 0, r.n) = Fill(r.n, "E5")
                  /\ MZ' = MZ
             ELSE /\ hdskRet' = CPM_OK
                  /\ Slice(hdskbuf', 0, r.n) = Slice(hdsk_unit[r.unit].file, r.off, r.n)
                  /\ MemGet(MZ', selectedDMA', r.n) = Slice(hdskbuf', 0, r.n) ]_vars

\* a READ from an empty image with a sector size set returned 0 and E5
C5_Witness ==
    /\ DidTransfer(HDSK_READ)
    /\ hdskRet = CPM_OK
    /\ \E i \in ReadsOf(hdskIO) :
          /\ hdskIO[i].n > 0
          /\ hdsk_unit[hdskIO[i].unit].file = <<>>
          /\ Slice(hdskbuf, 0, hdskIO[i].n) = Fill(hdskIO[i].n, "E5")
    /\ MZ = <<Run(Z80_MEMBYTES, "M", 0)>>

\* C6: the track is the low byte plus 256 times the high byte, and for a unit
\* byte naming a unit and a sector and track inside its geometry, the file
\* offset of the seek is (sectorsPerTrack * sectorSize) * track
\* + sectorSize * sector.
C6_SeekOffset ==
    [][ /\ (OutStep /\ hdskLastCommand \in {HDSK_READ, HDSK_WRITE})
           => /\ hdskCommandPosition = 2 => selectedTrack' = hdskCall'.data
              /\ hdskCommandPosition = 3
                    => selectedTrack' = selectedTrack + hdskCall'.data * 256
        /\ (/\ InStep /\ IsTransfer
            /\ selectedDisk \in HdskUnits
            /\ selectedSector < hdsk_unit[selectedDisk].u4
            /\ selectedTrack < hdsk_unit[selectedDisk].u3)
           => \A i \in 1 .. Len(hdskIO') :
                LET up == hdsk_unit[selectedDisk] IN
                /\ hdskIO'[i].unit = selectedDisk
                /\ hdskIO'[i].off =
                      (up.u4 * up.u5) * selectedTrack + up.u5 * selectedSector ]_vars

C6_Witness ==
    /\ DidTransfer(HDSK_READ)
    /\ selectedDisk = 1 /\ selectedTrack = 259 /\ selectedSector = 9
    /\ Len(hdskIO) = 2
    /\ hdskIO[1] = IoRec("seek", 1, 4096 * 259 + 128 * 9, 0)

--------------------------------------------------------------------------
(* Properties of the magnetic tape controller *)

\* the service that just ran executed function f on its unit
Served(f) == mtEv.op = "svc" /\ mtEv.f = f

\* the service that just ran read, with the word count W of its entry, the
\* record the last WRITE had put at the unit's position
ReadBack ==
    /\ Served(FN_READ)
    /\ mtEv.w0.unit = mtEv.unit
    /\ mtEv.w0.pos = mtEv.u0.pos
    /\ mtEv.w0.wc = DBSIZE - (mtEv.wc0 % DBSIZE)

\* C7: a READ in packed mode of a record that a WRITE in packed mode put there
\* with the same word count W delivers the W words the WRITE took from
\* memory, stores each of them, in their order, and does not set STA_RLE.
C7_RoundTripPacked ==
    (ReadBack /\ mtEv.w0.packed /\ PACKED(mtEv.cu0))
    => /\ mtEv.words = mtEv.w0.words
       /\ Len(mtEv.stores) = mtEv.w0.wc
       /\ \A i \in 1 .. Len(mtEv.stores) : mtEv.stores[i][2] = mtEv.w0.words[i]
       /\ STA_RLE \in mt_sta => STA_RLE \in mtEv.sta0

\* two different non-zero words written and read back in packed mode
C7_Witness ==
    /\ ReadBack /\ mtEv.w0.packed /\ PACKED(mtEv.cu0)
    /\ mtEv.w0.words = << 218321, 4167 >>
    /\ mtEv.stores = << << 1, 218321 >>, << 2, 4167 >> >>
    /\ MemRd(M, 1) = 218321 /\ MemRd(M, 2) = 4167
    /\ STA_RLE \notin mt_sta

\* C8: a READ with word count W of a record that a WRITE with the same W put
\* there in the other packing mode sets STA_RLE.
C8_ModeSwitchRLE ==
    (ReadBack /\ mtEv.w0.packed # PACKED(mtEv.cu0)) => STA_RLE \in mt_sta

\* a record written in packed mode is read in 9-track mode, and the reverse
C8_Witness ==
    /\ ReadBack /\ mtEv.w0.packed /\ ~PACKED(mtEv.cu0)
    /\ mtEv.w0.wc = 2
    /\ STA_RLE \in mt_sta /\ STA_RLE \notin mtEv.sta0

\* the service that just ran was a SPACE-FORWARD that met a file mark
MetMark == Served(FN_SPACEF) /\ mtEv.how = "mark"

\* where the last pass of the spacing left the unit
LastPos == IF mtEv.words = << >> THEN mtEv.u0.pos ELSE mtEv.words[Len(mtEv.words)][1]

\* the file mark is the last thing the unit moved over
StoppedAtMark ==
    LET up == mt_unit[mtEv.unit] IN
    /\ up.pos = LastPos + 4
    /\ TbcZero(up.file, LastPos)
    /\ up.USTAT = {STA_EOF}
    /\ mtEv.unit = GET_UNIT(mt_cu) => STA_EOF \in mt_sta

\* C9 as claimed: a SPACE-FORWARD that meets a file mark stops at it, sets
\* end-of-file and leaves the word-count register non-zero.
C9_MarkLeavesCount == MetMark => (StoppedAtMark /\ MemRd(M, MT_WC) # 0)

\* C9 as amended: a SPACE-FORWARD that meets a file mark stops at it, sets
\* end-of-file and leaves the word-count register at its value on entry plus
\* the number of records crossed; that value is non-zero unless the register
\* was 0 (a count of 2^18) on entry and no record came before the mark.
C9_MarkKeepsCount ==
    MetMark
    => /\ StoppedAtMark
       /\ MemRd(M, MT_WC) = (mtEv.wc0 + Len(mtEv.words)) % (WORDMASK + 1)
       /\ Len(mtEv.words) < WORDMASK + 1 - mtEv.wc0
       /\ MemRd(M, MT_WC) = 0 => (mtEv.wc0 = 0 /\ mtEv.words = << >>)

\* a record is crossed, then the mark is met with a count left
C9_Witness ==
    /\ MetMark
    /\ Len(mtEv.words) = 1
    /\ mtEv.u0.pos = 0 /\ mt_unit[mtEv.unit].pos = 16
    /\ MemRd(M, MT_WC) = WORDMASK

\* a unit other than the selected one is running a function that is no rewind
OtherBusy ==
    \E v \in MtUnits \ {mtEv.unit} :
        mt_unit[v].active /\ STA_REW \notin mt_unit[v].USTAT

\* the cases of an MTGO the claim names, on the state the MTGO found
ClaimedIllegal ==
    LET f == GET_CMD(mtEv.cu0)
        up == mtEv.u0
    IN  \/ up.active
        \/ OtherBusy
        \/ (f \in {FN_READ, FN_CMPARE} /\ ~up.att)
        \/ (f \in {FN_WRITE, FN_WREOF} /\ up.wlk)
        \/ (f \in {FN_SPACER, FN_REWIND} /\ up.pos = 0)

\* C10: an MTGO in one of these cases sets STA_ILL and leaves the unit as it
\* was: not scheduled anew, its position, status and image unchanged.
C10_IllegalGo ==
    (mtEv.op = "go" /\ ClaimedIllegal)
    => /\ STA_ILL \in mt_sta
       /\ mt_unit[mtEv.unit] = mtEv.u0
       /\ mt_cu = mtEv.cu0

\* a READ is refused on an idle, attached unit 1 while unit 0 is spacing
C10_Witness ==
    /\ mtEv.op = "go" /\ mtEv.unit = 1
    /\ GET_CMD(mtEv.cu0) = FN_READ
    /\ mtEv.u0.att /\ ~mtEv.u0.active
    /\ mt_unit[0].active /\ STA_REW \notin mt_unit[0].USTAT
    /\ STA_ILL \in mt_sta /\ STA_ILL \notin mtEv.sta0
    /\ ~mt_unit[1].active
\* the MTGO that just ran met none of the conditions that refuse a function
Accepted ==
    LET f == GET_CMD(mtEv.cu0)
        up == mtEv.u0
    IN  /\ mtEv.op = "go"
        /\ ~up.active
        /\ ~OtherBusy
        /\ up.att
        /\ f # FN_NOP
        /\ ~(f \in {FN_SPACER, FN_REWIND} /\ up.pos = 0)
        /\ ~(f \in {FN_WRITE, FN_WREOF} /\ up.wlk)

\* what the service that just ran found: a rewinding unit, a unit detached
\* during the latency, a write on a unit locked during the latency
FoundRewinding == STA_REW \in mtEv.u0.USTAT
FoundDetached == ~FoundRewinding /\ ~mtEv.u0.att
FoundLocked ==
    /\ ~FoundRewinding /\ mtEv.u0.att /\ mtEv.u0.wlk
    /\ GET_CMD(mtEv.cu0) \in {FN_WRITE, FN_WREOF}

Updated == mtEv.op \in {"iot", "go", "svc", "reset", "attach", "detach"}

\* C12: after every controller operation the interrupt request is asserted
\* if and only if STA_ERR or STA_DON is set and CU_IE is set in the control
\* word.
C12_IntReqWhenEnabled ==
    Updated => (int_req <=> (mt_sta \cap {STA_ERR, STA_DON} # {} /\ Bit(mt_cu, CU_IE)))

--------------------------------------------------------------------------
(* The Telnet multiplexor *)

\* a character as tmxr_getc_ln hands it over
TnChar(c, b) == [valid |-> TRUE, chr |-> c, brk |-> b]

\* the characters of line i that are buffered and not yet read
Pending(i) ==
    [k \in 1 .. (tm_ldsc[i].rxbpi - tm_ldsc[i].rxbpr) |->
        TnChar(tm_ldsc[i].rxb[tm_ldsc[i].rxbpr + k],
               tm_ldsc[i].rbr[tm_ldsc[i].rxbpr + k] # 0)]

\* the data of a byte stream received in binary mode: IAC IAC is one 0xFF,
\* IAC BRK a null flagged as a break, IAC with any other command and the
\* option after it are protocol, every other byte is itself; a sequence
\* that is not complete yet has given nothing
\* the number of bytes of s in front of its first byte b, all if it has none
Ahead(s, b) ==
    LET hits == { k \in DOMAIN s : s[k] = b }
    IN  IF hits = {} THEN Len(s)
        ELSE (CHOOSE k \in hits : \A x \in hits : k <= x) - 1

RECURSIVE Readable(_)
Readable(s) ==
    IF s = << >> THEN << >>
    ELSE IF s[1] # 255
    THEN [k \in 1 .. Ahead(s, 255) |-> TnChar(s[k], FALSE)]
             \o Readable(SubSeq(s, Ahead(s, 255) + 1, Len(s)))
    ELSE IF Len(s) = 1 THEN << >>
    ELSE IF s[2] = 255 THEN << TnChar(255, FALSE) >> \o Readable(SubSeq(s, 3, Len(s)))
    ELSE IF s[2] = 243 THEN << TnChar(0, TRUE) >> \o Readable(SubSeq(s, 3, Len(s)))
    ELSE Readable(SubSeq(s, 4, Len(s)))

\* the stream holds no IAC WONT BINARY, which ends binary mode
RECURSIVE StaysBinary(_)
StaysBinary(s) ==
    IF s = << >> THEN TRUE
    ELSE IF s[1] # 255 THEN StaysBinary(SubSeq(s, Ahead(s, 255) + 1, Len(s)))
    ELSE IF Len(s) = 1 THEN TRUE
    ELSE IF s[2] \in {255, 243} THEN StaysBinary(SubSeq(s, 3, Len(s)))
    ELSE IF Len(s) >= 3 /\ s[2] = 252 /\ s[3] = 0 THEN FALSE
    ELSE StaysBinary(SubSeq(s, 4, Len(s)))

\* C13: on a connected line that stays in binary mode, the characters read
\* so far followed by the characters still buffered are the data of the
\* bytes received so far: each IAC IAC pair gives exactly one 0xFF, each
\* byte outside an IAC sequence is there unchanged and in order, and the
\* sequences give nothing else
C13_BinaryDestuffing ==
    \A i \in TmLines :
        (tm_ldsc[i].conn # 0 /\ StaysBinary(tmIn[i]))
            => tmOut[i] \o Pending(i) = Readable(tmIn[i])

\* the example of the manual has been received and read completely
C13_Witness ==
    /\ tm_ldsc[0].conn # 0
    /\ tmIn[0] = << 65, 255, 255, 66 >>
    /\ tmOut[0] = << TnChar(65, FALSE), TnChar(255, FALSE), TnChar(66, FALSE) >>

\* bytes as the characters they are when they are data
Chars(s) == [k \in 1 .. Len(s) |-> TnChar(s[k], FALSE)]

OptionCmds == { UByte(TN_WILL), UByte(TN_WONT), UByte(TN_DO), UByte(TN_DONT) }

\* C14: when the bytes a connected line has received since its accept are
\* data without an IAC, then IAC and WILL, WONT, DO or DONT and one option
\* byte, then data without IAC or carriage return, the characters read and
\* buffered are exactly the data before and after the sequence, and the
\* parser is in the normal state: the sequence, met in the normal state,
\* has given no character and the data byte after it is readable
C14_OptionsInvisible ==
    \A i \in TmLines : \A p \in 0 .. Len(tmIn[i]) :
        LET pre == SubSeq(tmIn[i], 1, p)
            rest == SubSeq(tmIn[i], p + 4, Len(tmIn[i]))
        IN  ( /\ tm_ldsc[i].conn # 0
              /\ Len(tmIn[i]) >= p + 3
              /\ tmIn[i][p + 1] = UByte(TN_IAC)
              /\ tmIn[i][p + 2] \in OptionCmds
              /\ \A k \in DOMAIN pre : pre[k] # UByte(TN_IAC)
              /\ \A k \in DOMAIN rest : rest[k] \notin { UByte(TN_IAC), TN_CR } )
            => /\ tmOut[i] \o Pending(i) = Chars(pre \o rest)
               /\ tm_ldsc[i].tsta = TNS_NORM

\* IAC WILL ECHO and a C have been received, and the C has been read
C14_Witness ==
    /\ tm_ldsc[0].conn # 0
    /\ tmIn[0] = << 255, 251, 1, 67 >>
    /\ tmOut[0] = << TnChar(67, FALSE) >>
    /\ tm_ldsc[0].tsta = TNS_NORM

\* the last call was a tmxr_poll_conn that found a client waiting
Arrived == tmEv.op = "poll_conn"

\* on entry of the last call every line had a connection
WereAllBusy == \A i \in TmLines : tmEv.ln0[i].conn # 0

\* C15: a tmxr_poll_conn that finds a client waiting while every line has
\* a connection writes the busy notice, and nothing else, to the new
\* socket, closes it, returns -1, and leaves every field of every line, and
\* the sockets of the lines, as they were
C15_AllBusyNoChange ==
    (Arrived /\ WereAllBusy)
        => /\ tmEv.ret = -1
           /\ tmSock[tmEv.sock].out = << Msg("All connections busy\r\n") >>
           /\ ~tmSock[tmEv.sock].open
           /\ tm_ldsc = tmEv.ln0
           /\ \A s \in DOMAIN tmEv.sock0 :
                 /\ tmSock[s].out = tmEv.sock0[s].out
                 /\ tmSock[s].open = tmEv.sock0[s].open

\* a client was turned away while a line held received and queued bytes
C15_Witness ==
    /\ Arrived
    /\ WereAllBusy
    /\ tmEv.ret = -1
    /\ tm_ldsc[0].rxbpi > 0
    /\ tm_ldsc[0].txbpi > 0

\* C16: a tmxr_poll_conn that finds a client waiting and a line without a
\* connection returns the lowest line that had none, gives that line the
\* new socket, and leaves every other line as it was
C16_LowestFreeLine ==
    (Arrived /\ ~WereAllBusy)
        => /\ tmEv.ret \in TmLines
           /\ tmEv.ln0[tmEv.ret].conn = 0
           /\ \A j \in TmLines : j < tmEv.ret => tmEv.ln0[j].conn # 0
           /\ tm_ldsc[tmEv.ret].conn = tmEv.sock
           /\ \A j \in TmLines : tmEv.ln0[j].conn # 0 => tm_ldsc[j].conn = tmEv.ln0[j].conn
           /\ \A j \in TmLines : j # tmEv.ret => tm_ldsc[j] = tmEv.ln0[j]

\* a client got line 0, which had been connected before and had lost its
\* connection, while the highest line was connected
C16_Witness ==
    /\ Arrived
    /\ tmEv.ret = 0
    /\ tm_ldsc[0].conn = tmEv.sock
    /\ tmEv.ln0[NumLines - 1].conn # 0
    /\ tmEv.ln0[0].cnms # 0

\* C17: in every state (after every call of the library) each line has
\* rxbpr <= rxbpi <= TMXR_MAXBUF, and rxbpr = rxbpi only when both are 0
C17_RxCursors ==
    \A i \in TmLines :
        /\ 0 <= tm_ldsc[i].rxbpr
        /\ tm_ldsc[i].rxbpr <= tm_ldsc[i].rxbpi
        /\ tm_ldsc[i].rxbpi <= TMXR_MAXBUF
        /\ tm_ldsc[i].rxbpr = tm_ldsc[i].rxbpi => tm_ldsc[i].rxbpi = 0

\* a tmxr_getc_ln has just taken the last buffered character of a line that
\* held more than one
C17_Witness ==
    /\ tmEv.op = "getc"
    /\ tmEv.chr.valid
    /\ tmEv.ln0[tmEv.line].rxbpr > 0
    /\ tmEv.ln0[tmEv.line].rxbpi = tmEv.ln0[tmEv.line].rxbpr + 1
    /\ tm_ldsc[tmEv.line].rxbpi = 0
    /\ tm_ldsc[tmEv.line].rxbpr = 0

\* a connected line with less free transmit space than the guard has
\* transmit disabled
GuardHolds ==
    \A i \in TmLines :
        (tm_ldsc[i].conn # 0 /\ TMXR_MAXBUF - tm_ldsc[i].txbpi < TMXR_GUARD)
            => tm_ldsc[i].xmte = 0

\* the last call found line i connected with transmit disabled (only a
\* tmxr_putc_ln disables it) and left it enabled
Reenabled(i) == tmEv.ln0[i].conn # 0 /\ tmEv.ln0[i].xmte = 0 /\ tm_ldsc[i].xmte = 1

\* the last call was a tmxr_poll_tx that sent all that line i had queued
Drained(i) ==
    /\ tmEv.op = "poll_tx"
    /\ tmEv.rd[i] = tmEv.ln0[i].txbpi - tmEv.ln0[i].txbpr
    /\ tm_ldsc[i].conn = tmEv.ln0[i].conn

\* C18 as stated: the guard holds, and a line whose transmit was disabled
\* by a character write gets it enabled again only by a tmxr_poll_tx that
\* drains its queue, the transmit cursors then being 0
C18_OnlyDrainReenables ==
    /\ GuardHolds
    /\ \A i \in TmLines :
          Reenabled(i) => Drained(i) /\ tm_ldsc[i].txbpr = 0 /\ tm_ldsc[i].txbpi = 0

\* C18: the guard holds, and a line whose transmit was disabled by a
\* character write gets it enabled again only by a tmxr_poll_tx that drains
\* its queue or by a call that resets the line, ending its connection; in
\* both cases the transmit cursors are then 0
C18_Backpressure ==
    /\ GuardHolds
    /\ \A i \in TmLines :
          Reenabled(i)
              => /\ Drained(i) \/ tm_ldsc[i].conn = 0
                 /\ tm_ldsc[i].txbpr = 0
                 /\ tm_ldsc[i].txbpi = 0

\* a tmxr_poll_tx has sent the whole queue of a line that was filled beyond
\* the guard, and transmit is enabled again
C18_Witness ==
    /\ Reenabled(0)
    /\ Drained(0)
    /\ tmEv.ln0[0].txbpi > TMXR_MAXBUF - TMXR_GUARD
    /\ tm_ldsc[0].txbpi = 0

\* every 0xFF of s is one of a pair
RECURSIVE Stuffed(_)
Stuffed(s) ==
    \/ s = << >>
    \/ s[1] # UByte(TN_IAC)
          /\ Stuffed(SubSeq(s, Ahead(s, UByte(TN_IAC)) + 1, Len(s)))
    \/ Len(s) >= 2 /\ s[1] = UByte(TN_IAC) /\ s[2] = UByte(TN_IAC)
                   /\ Stuffed(SubSeq(s, 3, Len(s)))

\* C19: in every state the transmit buffer of a connected line holds each
\* 0xFF the device wrote followed by its stuffing 0xFF
C19_EveryIACStuffed ==
    \A i \in TmLines : tm_ldsc[i].conn # 0 => Stuffed(tm_ldsc[i].txb)

\* the last call was a tmxr_poll_rx whose read on line i reported an error
\* or the end of the connection
ReadFailed(i) == tmEv.op = "poll_rx" /\ tmEv.rd[i] < 0

\* C20: after a tmxr_poll_rx whose read on line i failed, line i has no
\* connection, its socket is closed, its four cursors are 0, its parser is
\* in the normal state and its transmit is enabled; every line on which
\* the poll read nothing is as it was, the sockets of the other lines are
\* open or closed as they were, and the listening socket is the same and
\* as open as before
C20_RxErrorIsolation ==
    \A i \in TmLines :
        ReadFailed(i)
            => /\ tm_ldsc[i].conn = 0
               /\ ~tmSock[tmEv.ln0[i].conn].open
               /\ tm_ldsc[i].rxbpr = 0 /\ tm_ldsc[i].rxbpi = 0
               /\ tm_ldsc[i].txbpr = 0 /\ tm_ldsc[i].txbpi = 0
               /\ tm_ldsc[i].tsta = TNS_NORM
               /\ tm_ldsc[i].xmte = 1
               /\ FirstAvail(tm_ldsc) <= i
               /\ \A j \in TmLines : tmEv.rd[j] = 0 => tm_ldsc[j] = tmEv.ln0[j]
               /\ \A j \in TmLines :
                     (tmEv.rd[j] >= 0 /\ tmEv.ln0[j].conn # 0)
                         => /\ tm_ldsc[j].conn = tmEv.ln0[j].conn
                            /\ tmSock[tm_ldsc[j].conn].open
                                  = tmEv.sock0[tm_ldsc[j].conn].open
               /\ tm_master = tmEv.master0
               /\ tmSock[tm_master].open = tmEv.sock0[tm_master].open

\* the peer of a line left in the middle of an option sequence while the
\* other line was connected and held a character to send
C20_Witness ==
    \E i \in TmLines : \E j \in TmLines :
        /\ ReadFailed(i)
        /\ tmEv.ln0[i].tsta # TNS_NORM
        /\ tm_ldsc[i].conn = 0
        /\ j # i
        /\ tmEv.rd[j] = 0
        /\ tm_ldsc[j].conn # 0
        /\ tm_ldsc[j].txbpi > 0

\* the last call was a tmxr_poll_tx whose send on line i failed
WriteFailed(i) == tmEv.op = "poll_tx" /\ tmEv.rd[i] = SOCKET_ERROR

\* C21: after a tmxr_poll_tx whose send on line i failed, line i is reset:
\* it has no connection, its socket is closed and its transmit queue is
\* empty
C21_TxErrorResets ==
    \A i \in TmLines :
        WriteFailed(i)
            => /\ tm_ldsc[i].conn = 0
               /\ ~tmSock[tmEv.ln0[i].conn].open
               /\ tm_ldsc[i].txbpr = 0
               /\ tm_ldsc[i].txbpi = 0

\* the last call was a tmxr_poll_rx that read one byte on line i
ReadOne(i) == tmEv.op = "poll_rx" /\ Len(tmEv.got[i]) = 1

\* the byte after IAC WILL or IAC WONT has been read on line i
OptionRead(i) == ReadOne(i) /\ tmEv.ln0[i].tsta \in {TNS_WILL, TNS_WONT}

\* what the mode does: with dstb set (not binary) a carriage return stays
\* and starts the skip of the next byte, and IAC IAC gives no character;
\* with dstb clear (binary) a carriage return is a character like any
\* other and the second IAC of a pair is the character 0xFF
ModeActs ==
    \A i \in TmLines :
        /\ (ReadOne(i) /\ tmEv.ln0[i].tsta = TNS_NORM /\ tmEv.got[i] = << TN_CR >>)
              => /\ tm_ldsc[i].rxb = tmEv.ln0[i].rxb \o << TN_CR >>
                 /\ tm_ldsc[i].tsta
                       = IF tmEv.ln0[i].dstb # 0 THEN TNS_SKIP ELSE TNS_NORM
        /\ (ReadOne(i) /\ tmEv.ln0[i].tsta = TNS_IAC /\ tmEv.got[i] = << UByte(TN_IAC) >>)
              => IF tmEv.ln0[i].dstb # 0
                 THEN tm_ldsc[i].rxbpi = tmEv.ln0[i].rxbpi /\ tm_ldsc[i].tsta = TNS_SKIP
                 ELSE /\ tm_ldsc[i].rxb = tmEv.ln0[i].rxb \o << UByte(TN_IAC) >>
                      /\ tm_ldsc[i].tsta = TNS_NORM

\* the characters of the bytes s received, since its accept, by a connected
\* line are the bytes d
Gives(s, d) ==
    \A i \in TmLines :
        (tm_ldsc[i].conn # 0 /\ tmIn[i] = s) => tmOut[i] \o Pending(i) = Chars(d)

\* C24 as stated: IAC WILL BINARY sets the mode that is not binary, IAC
\* WONT BINARY sets binary mode, WILL or WONT of another option leaves the
\* mode as it is
C24_WillSetsNonBinary ==
    /\ ModeActs
    /\ \A i \in TmLines :
          OptionRead(i)
              => tm_ldsc[i].dstb
                    = IF tmEv.got[i] # << TN_BIN >> THEN tmEv.ln0[i].dstb
                      ELSE IF tmEv.ln0[i].tsta = TNS_WILL THEN 1 ELSE 0
    /\ Gives(<< 255, 251, 0, 13, 10, 66 >>, << 13, 66 >>)
    /\ Gives(<< 255, 252, 0, 13, 10, 66 >>, << 13, 10, 66 >>)

\* C24: IAC WILL BINARY sets binary mode, IAC WONT BINARY sets the mode
\* that is not binary (a carriage return then makes the next byte drop, and
\* IAC IAC gives no 0xFF), WILL or WONT of another option leaves the mode
\* as it is
C24_WillSetsBinary ==
    /\ ModeActs
    /\ \A i \in TmLines :
          OptionRead(i)
              => tm_ldsc[i].dstb
                    = IF tmEv.got[i] # << TN_BIN >> THEN tmEv.ln0[i].dstb
                      ELSE IF tmEv.ln0[i].tsta = TNS_WILL THEN 0 ELSE 1
    /\ Gives(<< 255, 251, 0, 13, 10, 66 >>, << 13, 10, 66 >>)
    /\ Gives(<< 255, 252, 0, 13, 10, 66 >>, << 13, 66 >>)
    /\ Gives(<< 255, 252, 0, 255, 255, 66 >>, << >>)
    /\ Gives(<< 255, 252, 0, 255, 251, 1, 66 >>, << 66 >>)

\* IAC WONT BINARY, carriage return, line feed and B were received and
\* read: the line feed is missing; the mode was still set when the B came
C24_Witness ==
    /\ tm_ldsc[0].conn # 0
    /\ tmIn[0] = << 255, 252, 0, 13, 10, 66 >>
    /\ tmOut[0] = Chars(<< 13, 66 >>)
    /\ tm_ldsc[0].dstb = 1

\* C25: a tmxr_poll_conn that assigns a connection to a line leaves the
\* line with receive disabled, its four cursors and two counters 0, its
\* parser in the normal state and transmit enabled
C25_AcceptDisablesReceive ==
    (Arrived /\ tmEv.ret >= 0)
        => /\ tm_ldsc[tmEv.ret].rcve = 0
           /\ tm_ldsc[tmEv.ret].rxbpr = 0 /\ tm_ldsc[tmEv.ret].rxbpi = 0
           /\ tm_ldsc[tmEv.ret].txbpr = 0 /\ tm_ldsc[tmEv.ret].txbpi = 0
           /\ tm_ldsc[tmEv.ret].rxcnt = 0 /\ tm_ldsc[tmEv.ret].txcnt = 0
           /\ tm_ldsc[tmEv.ret].tsta = TNS_NORM
           /\ tm_ldsc[tmEv.ret].xmte = 1

--------------------------------------------------------------------------
(* The hard disk controller, continued *)

Collecting == hdskLastCommand \in {HDSK_READ, HDSK_WRITE} /\ hdskCommandPosition \in 0 .. 5

\* a written byte is the command when no READ, WRITE or GET-PARAMETERS is
\* pending
SelectsCommand ==
    (OutStep /\ hdskLastCommand \notin {HDSK_READ, HDSK_WRITE, HDSK_PARAM})
        => hdskLastCommand' = hdskCall'.data /\ hdskCommandPosition' = 0

\* the six bytes after READ or WRITE are unit, sector, track low, track
\* high, DMA low, DMA high
TakesParameter ==
    (OutStep /\ Collecting)
        => /\ hdskLastCommand' = hdskLastCommand
           /\ hdskCommandPosition' = hdskCommandPosition + 1
           /\ selectedDisk' = IF hdskCommandPosition = 0 THEN hdskCall'.data
                              ELSE selectedDisk
           /\ selectedSector' = IF hdskCommandPosition = 1 THEN hdskCall'.data
                                ELSE selectedSector
           /\ selectedTrack' = CASE hdskCommandPosition = 2 -> hdskCall'.data
                                 [] hdskCommandPosition = 3
                                      -> selectedTrack + 256 * hdskCall'.data
                                 [] OTHER -> selectedTrack
           /\ selectedDMA' = CASE hdskCommandPosition = 4 -> hdskCall'.data
                               [] hdskCommandPosition = 5
                                    -> selectedDMA + 256 * hdskCall'.data
                               [] OTHER -> selectedDMA

NoTransfer == hdskIO' = <<>> /\ MZ' = MZ /\ FilesUnchanged

\* C23 as stated: the command byte and the six parameters are taken in
\* their order, and the byte written after the sixth parameter is taken as
\* a new command byte, the transfer having been made
C23_SixthByteExecutes ==
    [][ /\ SelectsCommand
        /\ TakesParameter
        /\ (OutStep /\ IsTransfer)
              => hdskLastCommand' = hdskCall'.data /\ hdskCommandPosition' = 0 ]_vars

\* C23: the command byte and the six parameters are taken in their order
\* and no write makes a transfer; with the six parameters written, a read
\* of the port makes the transfer (a seek and a file operation precede
\* every result that is not CPM_ERROR) and leaves the sequencer idle, so
\* that the next written byte is a command; a seventh written byte instead
\* is dropped, makes no transfer and leaves the sequencer idle
C23_ReadExecutes ==
    [][ /\ SelectsCommand
        /\ TakesParameter
        /\ OutStep => NoTransfer
        /\ (OutStep /\ IsTransfer)
              => /\ hdskLastCommand' = HDSK_NONE
                 /\ hdskCommandPosition' = 0
                 /\ UNCHANGED << selectedDisk, selectedSector, selectedTrack, selectedDMA >>
        /\ (InStep /\ IsTransfer)
              => /\ hdskLastCommand' = HDSK_NONE
                 /\ hdskCommandPosition' = 0
                 /\ hdskRet' # CPM_ERROR => hdskIO' # <<>> ]_vars

\* a READ with its six parameters was read and succeeded
C23_Witness ==
    /\ DidTransfer(HDSK_READ)
    /\ hdskRet = CPM_OK
    /\ hdskIO # <<>>
    /\ selectedTrack > 255
    /\ selectedDMA > 255
    /\ hdskLastCommand = HDSK_NONE

\* no READ, WRITE or GET-PARAMETERS is pending
NoPending == hdskLastCommand \notin {HDSK_READ, HDSK_WRITE, HDSK_PARAM}

\* C26 as stated: with no command pending, the command position and the
\* parameter cursor are both 0
C26_CursorsZeroWhenIdle ==
    NoPending => (hdskCommandPosition = 0 /\ paramcount = 0)

\* C26: with no command pending the command position is 0; the parameter
\* cursor is set to 0 only by a byte written while GET-PARAMETERS is
\* pending, counts each read made while it is pending, and is left alone by
\* every other call, so that it keeps its count when the command completes
C26_PositionZeroWhenIdle ==
    /\ [](NoPending => hdskCommandPosition = 0)
    /\ [][ /\ (OutStep /\ hdskLastCommand = HDSK_PARAM) => paramcount' = 0
           /\ (InStep /\ hdskLastCommand = HDSK_PARAM /\ ~IsTransfer)
                 => /\ paramcount' = paramcount + 1
                    /\ hdskLastCommand'
                          = IF paramcount' >= 19 THEN HDSK_NONE ELSE HDSK_PARAM
           /\ hdskLastCommand # HDSK_PARAM => paramcount' = paramcount ]_vars

\* the 19th byte of GET-PARAMETERS has been read: no command is pending and
\* the cursor is 19
C26_Witness ==
    /\ hdskCall.op = "in"
    /\ hdskCall.cmd = HDSK_PARAM
    /\ hdskLastCommand = HDSK_NONE
    /\ hdskCommandPosition = 0
    /\ paramcount = 19

\* C27: a read of the port while a READ or WRITE has fewer than six
\* parameters, or while no command or RESET is pending, returns 0 and
\* leaves the pending command, the position, the parameter cursor, the
\* selected unit, sector, track and DMA address, the memory, the sector
\* buffer and every unit with its image as they were, and makes no file
\* operation
C27_OutOfOrderRead ==
    [][ (InStep /\ (Collecting \/ hdskLastCommand \in {HDSK_NONE, HDSK_RESET}))
        => /\ hdskRet' = 0
           /\ hdskIO' = <<>>
           /\ UNCHANGED << hdskLastCommand, hdskCommandPosition, paramcount,
                           selectedDisk, selectedSector, selectedTrack, selectedDMA,
                           MZ, hdskbuf, hdsk_unit >> ]_vars

\* the port was read after the unit, the sector and the track of a READ
\* were written; the READ is still pending with its four parameter bytes
C27_Witness ==
    /\ hdskCall.op = "in"
    /\ hdskCall.cmd = HDSK_READ
    /\ hdskCall.pos = 4
    /\ hdskLastCommand = HDSK_READ
    /\ hdskCommandPosition = 4
    /\ selectedTrack > 255
    /\ hdskRet = 0

--------------------------------------------------------------------------
(* The tape controller, continued *)

\* the unit of the last service as it is now
ServedUnit == mt_unit[mtEv.unit]

\* the last service was a READ or COMPARE that found a file mark at the
\* position of the unit
ReadMark ==
    /\ Served(FN_READ) \/ Served(FN_CMPARE)
    /\ ~AtEof(mtEv.u0.file, mtEv.u0.pos)
    /\ TbcZero(mtEv.u0.file, mtEv.u0.pos)

\* after the last service the image holds a zero length field at the old
\* position of the unit
MarkWritten ==
    /\ ~AtEof(ServedUnit.file, mtEv.u0.pos)
    /\ TbcZero(ServedUnit.file, mtEv.u0.pos)

\* C28 as stated: a file mark takes 8 bytes: READ of a mark and
\* WRITE-FILE-MARK advance the position by 8, and set end of file
C28_MarkIsEightBytes ==
    /\ ReadMark => /\ ServedUnit.pos = mtEv.u0.pos + 8
                   /\ STA_EOF \in ServedUnit.USTAT
    /\ Served(FN_WREOF) => /\ ServedUnit.pos = mtEv.u0.pos + 8
                           /\ STA_EOF \in ServedUnit.USTAT

\* C28: a file mark is one zero length field of 4 bytes, without payload
\* and without a trailing length: READ and COMPARE of a mark advance the
\* position by 4 and set end of file, WRITE-FILE-MARK writes the 4 bytes,
\* changes the length of the image by no more than that, advances the
\* position by 4 and sets end of file
C28_MarkIsFourBytes ==
    /\ ReadMark => /\ ServedUnit.pos = mtEv.u0.pos + 4
                   /\ ServedUnit.USTAT = {STA_EOF}
                   /\ STA_EOF \in mt_sta
                   /\ ServedUnit.file = mtEv.u0.file
    /\ Served(FN_WREOF) => /\ ServedUnit.pos = mtEv.u0.pos + 4
                           /\ ServedUnit.USTAT = {STA_EOF}
                           /\ STA_EOF \in mt_sta
                           /\ MarkWritten
                           /\ Len(ServedUnit.file) <= Len(mtEv.u0.file) + 4

\* a READ met the mark that follows the record of the image
C28_Witness ==
    /\ ReadMark
    /\ Served(FN_READ)
    /\ mtEv.u0.pos = 12
    /\ ServedUnit.pos = 16
    /\ STA_DON \in mt_sta

\* the last service was a READ that found a record at the position of the
\* unit
ReadRecord ==
    /\ Served(FN_READ)
    /\ ~AtEof(mtEv.u0.file, mtEv.u0.pos)
    /\ ~TbcZero(mtEv.u0.file, mtEv.u0.pos)

\* the length of that record, the length the word count and the mode ask
\* for, and the smaller of the two
TrueLength == MTRL(mtEv.u0.file, mtEv.u0.pos)
BytesPerWord == IF PACKED(mtEv.cu0) THEN 3 ELSE 2
ExpectedLength == BytesPerWord * (DBSIZE - (mtEv.wc0 % DBSIZE))
UsedLength == IF TrueLength < ExpectedLength THEN TrueLength ELSE ExpectedLength

\* the words of the first UsedLength bytes of the record, the last word
\* filled up with zero bytes
PaddedWords ==
    LET n == (UsedLength + BytesPerWord - 1) \div BytesPerWord
        bytes == [k \in 1 .. (n * BytesPerWord) |->
                    IF k <= UsedLength THEN mtEv.u0.file[mtEv.u0.pos + 4 + k] ELSE 0]
    IN  [i \in 1 .. n |-> Unpack(bytes, i - 1, PACKED(mtEv.cu0))]

\* C29: a READ of a record whose length differs from the expected length
\* sets the record length error and DONE, moves the words of the smaller of
\* the two lengths, the last word filled up with zero bytes, and advances
\* the position by the record's length rounded up to even plus 8
C29_LengthMismatch ==
    (ReadRecord /\ TrueLength # ExpectedLength)
        => /\ STA_RLE \in mt_sta
           /\ STA_DON \in mt_sta
           /\ mtEv.words = PaddedWords
           /\ ServedUnit.pos = mtEv.u0.pos + EvenUp(TrueLength) + 8

\* the step is a service of COMPARE that found a record
CompareStep ==
    /\ mtEv'.op = "svc"
    /\ mtEv'.f = FN_CMPARE
    /\ mtEv'.how \in {"record", "differ"}

\* word k of the record is equal to the word of memory it is compared with
\* (the memory of the state before the step: the words are not the two
\* registers)
SameWord(k) ==
    LET xma == ((MemRd(M, MT_MA) + k) % (WORDMASK + 1)) % (ADDRMASK + 1)
    IN  mtEv'.words[k] = MemRd(M, xma) % (IF PACKED(mt_cu) THEN 262144 ELSE 65536)

\* C30: a COMPARE stores nothing in memory but the word count and the
\* current address; at the first word that differs it sets STA_CPE, compares
\* no further word and leaves the word count at the words found equal; the
\* position advances past the whole record and STA_DON is set
C30_Compare ==
    [][CompareStep =>
        LET n == Len(mtEv'.words)
            u == mtEv'.unit
        IN  /\ \A a \in (DOMAIN M \cup DOMAIN M') \ {MT_WC, MT_MA} :
                  MemRd(M', a) = MemRd(M, a)
            /\ mtEv'.stores = << >>
            /\ STA_DON \in mt_sta'
            /\ mt_unit'[u].pos = mt_unit[u].pos
                                   + EvenUp(MTRL(mt_unit[u].file, mt_unit[u].pos)) + 8
            /\ MemRd(M', MT_MA) = (MemRd(M, MT_MA) + n) % (WORDMASK + 1)
            /\ mtEv'.how = "differ"
                  => /\ STA_CPE \in mt_sta'
                     /\ n >= 1
                     /\ \A k \in 1 .. n - 1 : SameWord(k)
                     /\ ~SameWord(n)
                     /\ MemRd(M', MT_WC) = (MemRd(M, MT_WC) + n - 1) % (WORDMASK + 1)
            /\ mtEv'.how = "record"
                  => /\ \A k \in 1 .. n : SameWord(k)
                     /\ STA_CPE \in mt_sta' => STA_CPE \in mt_sta
                     /\ MemRd(M', MT_WC) = (MemRd(M, MT_WC) + n) % (WORDMASK + 1)
    ]_vars

\* a COMPARE of a record of two words found the first word equal and the
\* second different: the word count has advanced by one, the position is
\* behind the record
C30_Witness ==
    /\ Served(FN_CMPARE)
    /\ mtEv.how = "differ"
    /\ Len(mtEv.words) = 2
    /\ STA_CPE \in mt_sta
    /\ STA_DON \in mt_sta
    /\ MemRd(M, MT_WC) = (mtEv.wc0 + 1) % (WORDMASK + 1)
    /\ MemRd(M, 2) = 5
    /\ ServedUnit.pos = mtEv.u0.pos + EvenUp(MTRL(mtEv.u0.file, mtEv.u0.pos)) + 8

--------------------------------------------------------------------------
(* The port mapping of the serial I/O device *)

\* the index of the last entry of t, and the ports of the entries before it
LastIndex(t) == lookupPosition(t, -1)
Ports(t) == { PtRd(t, i).port : i \in 0 .. (LastIndex(t) - 1) }

\* every port has at most one entry before the last entry
OneEntryEach(t) ==
    \A i, j \in 0 .. (LastIndex(t) - 1) :
        PtRd(t, i).port = PtRd(t, j).port => i = j

\* the last entry lies inside the array
Terminated == ~sioBeyond /\ LastIndex(port_table) < PORT_TABLE_SIZE

\* the step is a command that was carried out
SioDone(op) == sioEv'.op = op /\ sioEv'.ret = "SCPE_OK"

\* the lookup of every port but p gives what it gave before the step
OthersKept(p) ==
    \A q \in (Ports(port_table) \cup Ports(port_table')) \ {p} :
        lookupPortInfo(port_table', q) = lookupPortInfo(port_table, q)

\* C22: after any sequence of commands that add, replace and remove port
\* mappings every port has at most one entry in port_table, the table is
\* terminated by its last entry inside the array of PORT_TABLE_SIZE
\* entries, and the lookup of a port gives the mapping bound to it last
C22_PortTable ==
    /\ [](OneEntryEach(port_table) /\ Terminated)
    /\ [][/\ SioDone("add")
             => /\ lookupPortInfo(port_table', sioEv'.sip.port) = sioEv'.sip
                /\ OthersKept(sioEv'.sip.port)
          /\ SioDone("remove")
             => /\ lookupPortInfo(port_table', sioEv'.port).port = -1
                /\ OthersKept(sioEv'.port)
          /\ sioEv'.ret # "SCPE_OK" => port_table' = port_table
         ]_vars

\* the parts of the claim that do not depend on the size of the array
SioLookups ==
    /\ [](~sioBeyond => OneEntryEach(port_table))
    /\ [][~sioBeyond'
          => /\ SioDone("add")
                => /\ lookupPortInfo(port_table', sioEv'.sip.port) = sioEv'.sip
                   /\ OthersKept(sioEv'.sip.port)
             /\ SioDone("remove")
                => /\ lookupPortInfo(port_table', sioEv'.port).port = -1
                   /\ OthersKept(sioEv'.port)
             /\ sioEv'.ret # "SCPE_OK" => port_table' = port_table
         ]_vars

--------------------------------------------------------------------------
(* The hard disk controller: attach, reset and the unit index *)

\* the step attaches an image to unit u
AttachStep(u) == ~hdsk_unit[u].att /\ hdsk_unit'[u].att

\* the derived fields of a unit record are those of its format
Derived(up) ==
    LET d == dpb[up.u6 + 1] IN
    /\ up.u5 = 128 * Pow2(d.psh)
    /\ up.u4 = d.spt \div Pow2(d.psh)
    /\ up.u3 = up.capac \div (up.u4 * up.u5)

\* C31: after every attach of an image, of any size, the derived fields of
\* the unit are those of its format; a size that is the capacity of no
\* format selects the first format and locks the unit
C31_GeometryAfterAttach ==
    [][\A u \in HdskUnits :
          AttachStep(u) =>
             LET up == hdsk_unit'[u]
                 flen == RunLen(up.file)
             IN  /\ up.u6 \in 0 .. (Len(dpb) - 1)
                 /\ Derived(up)
                 /\ (\A i \in 1 .. Len(dpb) : dpb[i].capac # flen)
                       => (up.u6 = 0 /\ up.wlk /\ up.capac = dpb[1].capac)
      ]_vars

\* the same for the images that are not empty
HdskAttachNonEmpty ==
    [][\A u \in HdskUnits :
          (AttachStep(u) /\ hdsk_unit'[u].file # << >>) =>
             LET up == hdsk_unit'[u]
                 flen == RunLen(up.file)
             IN  /\ up.u6 \in 0 .. (Len(dpb) - 1)
                 /\ Derived(up)
                 /\ (\A i \in 1 .. Len(dpb) : dpb[i].capac # flen)
                       => (up.u6 = 0 /\ up.wlk /\ up.capac = dpb[1].capac)
                 /\ (\E i \in 1 .. Len(dpb) : dpb[i].capac = flen)
                       => (dpb[up.u6 + 1].capac = flen /\ up.capac = flen
                           /\ up.wlk = hdsk_unit[u].wlk)
      ]_vars

\* the next byte written is taken as a command
Ready ==
    /\ hdskLastCommand \notin {HDSK_READ, HDSK_WRITE, HDSK_PARAM}
    /\ hdskCommandPosition = 0

\* C32: the reset sequence, HdskResetCount writes of HDSK_RESET in a row,
\* started in any state of the controller, leaves it with the command
\* position 0 and ready to take the next byte written as a command
C32_ResetSequence == hdskResets = HdskResetCount => Ready

\* the same for a sequence not started with GET-PARAMETERS pending (the
\* sequence leaves a pending GET-PARAMETERS as it is)
HdskResetOutsideParam ==
    (hdskResets = HdskResetCount /\ hdskLastCommand # HDSK_PARAM)
        => (hdskLastCommand = HDSK_RESET /\ hdskCommandPosition = 0)

\* the read of the port reads fields of the unit record uptr points to,
\* uptr being hdsk_dev.units + selectedDisk with selectedDisk as on entry: the
\* geometry in checkParameters once the unit is found attached, the format
\* and the sector size with GET-PARAMETERS pending
ReadsUnitRecord ==
    /\ InStep
    /\ \/ IsTransfer /\ checkParameters(0, 0).ok
       \/ hdskLastCommand = HDSK_PARAM /\ paramcount < 19

\* C40: every access the port handler makes to a unit record uses a unit
\* index in 0 .. HDSK_NUMBER - 1, whatever unit byte the guest wrote
C40_UnitIndexBound == [][ReadsUnitRecord => selectedDisk \in HdskUnits]_vars

\* the transfer itself is made on the unit of the repaired index
HdskTransferUnit ==
    [][(InStep /\ IsTransfer) => selectedDisk' \in HdskUnits]_vars

--------------------------------------------------------------------------
(* The tape controller: spacing and the latching of the function *)

\* the last service was a spacing; its passes, each the position and the
\* word count register it left
Spaced == Served(FN_SPACEF) \/ Served(FN_SPACER)
Trail == mtEv.words

\* the position and the register before pass i
PosBefore(i) == IF i = 1 THEN mtEv.u0.pos ELSE Trail[i - 1][1]
WcBefore(i) == IF i = 1 THEN mtEv.wc0 ELSE Trail[i - 1][2]

\* pass i moved the position across one record
CrossedRecord(i) ==
    IF mtEv.f = FN_SPACEF
    THEN /\ ~AtEof(mtEv.u0.file, PosBefore(i))
         /\ ~TbcZero(mtEv.u0.file, PosBefore(i))
         /\ Trail[i][1] = PosBefore(i) + EvenUp(MTRL(mtEv.u0.file, PosBefore(i))) + 8
    ELSE /\ ~AtEof(mtEv.u0.file, PosBefore(i) - 4)
         /\ MTRL(mtEv.u0.file, PosBefore(i) - 4) # 0
         /\ Trail[i][1] = PosBefore(i) - EvenUp(MTRL(mtEv.u0.file, PosBefore(i) - 4)) - 8

\* pass i of a spacing backward arrived at the start of the tape
ArrivedAtBot(i) == mtEv.f = FN_SPACER /\ Trail[i][1] = 0

\* the loop stops after the pass that brings the register to 0 or arrives
\* at the start of the tape, or where it finds a file mark or the end or the
\* start of the tape instead of a record, and nowhere else
StopsExactly ==
    /\ \A i \in 1 .. Len(Trail) - 1 : Trail[i][2] # 0 /\ ~ArrivedAtBot(i)
    /\ ServedUnit.file = mtEv.u0.file
    /\ MemRd(M, MT_WC) = (IF Trail = << >> THEN mtEv.wc0 ELSE Trail[Len(Trail)][2])
    /\ LET before == IF Trail = << >> THEN mtEv.u0.pos ELSE Trail[Len(Trail)][1] IN
       CASE mtEv.how = "count" ->
               Trail # << >> /\ MemRd(M, MT_WC) = 0 /\ ServedUnit.pos = before
         [] mtEv.how = "mark" ->
               IF mtEv.f = FN_SPACEF
               THEN TbcZero(mtEv.u0.file, before) /\ ServedUnit.pos = before + 4
               ELSE MTRL(mtEv.u0.file, before - 4) = 0 /\ ServedUnit.pos = before - 4
         [] mtEv.how = "eot" ->
               mtEv.f = FN_SPACEF /\ AtEof(mtEv.u0.file, before)
               /\ ServedUnit.pos = before
         [] mtEv.how = "bot" -> mtEv.f = FN_SPACER /\ ServedUnit.pos = 0
         [] OTHER -> FALSE

\* C35 as it was stated: every pass of SPACE-FORWARD and SPACE-REVERSE that
\* moves the position across a record advances the word count register by
\* one (mod 2^18), and the loop stops exactly at the count 0, a file mark or
\* a boundary of the tape
C35_EveryRecordCounted ==
    Spaced =>
        /\ \A i \in 1 .. Len(Trail) :
              /\ CrossedRecord(i)
              /\ Trail[i][2] = (WcBefore(i) + 1) % (WORDMASK + 1)
        /\ StopsExactly

\* C35: every pass moves the position across a record and advances the
\* word count register by one (mod 2^18), but the pass of SPACE-REVERSE that
\* arrives at the start of the tape, which leaves the register as it is;
\* the loop stops exactly at the count 0, a file mark or a boundary
C35_SpacingCount ==
    Spaced =>
        /\ \A i \in 1 .. Len(Trail) :
              /\ CrossedRecord(i)
              /\ Trail[i][2] = IF ArrivedAtBot(i) THEN WcBefore(i)
                               ELSE (WcBefore(i) + 1) % (WORDMASK + 1)
        /\ StopsExactly

\* a spacing backward over one record arrived at the start of the tape with
\* the count not exhausted and the register as it was
C35_Witness ==
    /\ Served(FN_SPACER)
    /\ mtEv.how = "bot"
    /\ Len(Trail) = 1
    /\ mtEv.u0.pos > 0
    /\ ServedUnit.pos = 0
    /\ MemRd(M, MT_WC) = mtEv.wc0
    /\ mtEv.wc0 # 0

\* the step is the service of a unit that carries out a function of the
\* switch of mt_svc
ServiceStep == mtEv'.op = "svc" /\ mtEv'.f \in MtFuncs

\* C38: the function a service carries out on its unit, and the packing
\* mode it uses, are those of mt_cu at the MTGO that started the unit; no
\* load of mt_cu made while the unit is running changes them
C38_FunctionLatched ==
    [][ServiceStep =>
           /\ mtEv'.f = GET_CMD(mtGo[mtEv'.unit])
           /\ PACKED(mt_cu) = PACKED(mtGo[mtEv'.unit])
      ]_vars

\* the function of a service is that of mt_cu when the service runs
MtFunctionAtService == [][ServiceStep => mtEv'.f = GET_CMD(mt_cu)]_vars

--------------------------------------------------------------------------
(* The Telnet multiplexor, continued *)

\* line i as tmxr_poll_rx has it when the loop over the bytes read starts
Received(i) ==
    [tmEv.ln0[i] EXCEPT !.rxb = @ \o tmEv.got[i], !.rbr = @ \o Zeros(tmEv.rd[i]),
                        !.rxbpi = @ + tmEv.rd[i], !.rxcnt = @ + tmEv.rd[i]]

\* the highest index of the receive buffer read while bytes of line i were
\* removed in the last poll, -1 if none was removed
RemovalTop(i) ==
    IF tmEv.op = "poll_rx" /\ tmEv.rd[i] > 0
    THEN CruftTop(Received(i), tmEv.ln0[i].rxbpi)
    ELSE -1

\* C36: whatever is received and however it is split over the reads, every
\* access to the receive buffer made while a protocol byte is removed has an
\* index below TMXR_MAXBUF
C36_RxBufferBounds == \A i \in TmLines : RemovalTop(i) < TMXR_MAXBUF

\* the reads themselves stay inside the buffer, and a removal reads
\* rxb[TMXR_MAXBUF] at most
TmRxFill ==
    \A i \in TmLines :
        /\ tm_ldsc[i].rxbpi <= TMXR_MAXBUF
        /\ RemovalTop(i) <= TMXR_MAXBUF
        /\ tmEv.op = "poll_rx" => tmEv.ln0[i].rxbpi + (IF tmEv.rd[i] > 0 THEN tmEv.rd[i] ELSE 0) <= TMXR_MAXBUF

\* a line that has just been connected with the stream s in its buffer, as
\* if one read without limit had returned all of it, after the loop over
\* the bytes
Whole(s) ==
    Cruft([TmlnInit EXCEPT !.rxb = s, !.rbr = Zeros(Len(s)), !.rxbpi = Len(s)], 0)

\* the characters a buffer holds
Buffered(lp) == [k \in 1 .. lp.rxbpi |-> TnChar(lp.rxb[k], lp.rbr[k] # 0)]

\* C37: for every byte stream a connected line has received, the characters
\* read and still buffered, with their break flags, the Telnet state and the
\* binary mode are those the stream gives when it is examined in one piece:
\* they do not depend on how the stream was split over the reads of the
\* polls
C37_ChunkingIndependent ==
    \A i \in TmLines :
        tm_ldsc[i].conn # 0
            => LET w == Whole(tmIn[i])
               IN  /\ tmOut[i] \o Pending(i) = Buffered(w)
                   /\ tm_ldsc[i].tsta = w.tsta
                   /\ tm_ldsc[i].dstb = w.dstb

\* a read has ended inside IAC IAC; the next has brought the second IAC
C37_Witness ==
    /\ tm_ldsc[0].conn # 0
    /\ tmEv.op = "poll_rx"
    /\ tmEv.ln0[0].tsta = TNS_IAC
    /\ tmEv.got[0] = << 255, 66 >>
    /\ tmIn[0] = << 65, 255, 255, 66 >>
    /\ tmOut[0] \o Pending(0) = << TnChar(65, FALSE), TnChar(255, FALSE), TnChar(66, FALSE) >>

--------------------------------------------------------------------------
(* The console handlers and the port mapping *)

InitSioSvc ==
    HdskInit /\ MtIdle /\ TmIdle /\ SioRegsInit /\ sioScript \in SioSvcScripts

SpecSioSvc == InitSioSvc /\ [][SioSvcNext]_vars

\* C39: whenever sio0s or sio0d runs, called by the processor for a port or
\* by the service of the unit for port 0, the port mapping holds an entry
\* for the port it is called for: the assertion spi.port == port holds
C39_HandlerAssertion ==
    sioEv.op \in { "sio0s", "sio0d", "sio_svc" } => sioEv.sip.port = sioEv.port

\* called by the processor, through the routine the mapping has set for the
\* port, a handler finds the entry of its port
SioDispatchFinds ==
    sioEv.op \in { "sio0s", "sio0d" } => sioEv.sip.port = sioEv.port

\* the service finds the last entry of the table exactly when port 0 has no
\* mapping
SioSvcWithoutPort0 ==
    [][(sioEv'.op = "sio_svc" /\ sioEv' # sioEv)
         => (sioEv'.ret = "abort") = (\A i \in DOMAIN port_table : port_table[i].port # 0)]_vars


--------------------------------------------------------------------------
(* The SIMH pseudo device: the reset sequence and the results *)

InitSimh == HdskInit /\ MtIdle /\ TmIdle /\ SioPortsInit /\ sioScript = << >> /\ SimhInit

SpecSimh == InitSimh /\ [][SimhNext]_vars

\* the position of each command in its result or its parameters
SimhCursors ==
    { "versionPos", "getCommonPos", "getStopWatchDeltaPos", "getClockZSDOSPos",
      "getClockCPM3Pos", "setClockZSDOSPos", "setClockCPM3Pos", "setTimerDeltaPos",
      "setTimerInterruptAdrPos" }

\* C33: when the reset command has been written 128 times in a row, no
\* command is pending, the timer stack is empty and the position of every
\* command is 0
C33_ResetProtocol ==
    simhEv.resets = SimhResetCount
        => /\ simh.lastCommand = 0
           /\ simh.markTimeSP = 0
           /\ \A c \in SimhCursors : simh[c] = 0

\* the reset sequence does end the pending command and empty the timer
\* stack, and no parameter is left in part; of the positions in a result
\* it changes none
SimhResetReaches ==
    /\ simhEv.resets = SimhResetCount
          => /\ simh.lastCommand = 0
             /\ simh.markTimeSP = 0
             /\ \A c \in { "setClockZSDOSPos", "setClockCPM3Pos", "setTimerDeltaPos",
                            "setTimerInterruptAdrPos" } : simh[c] = 0
    /\ [][(simhEv'.op = "out" /\ simhEv'.cmd = resetSIMHInterfaceCmd)
            => \A c \in { "versionPos", "getCommonPos", "getStopWatchDeltaPos",
                           "getClockZSDOSPos", "getClockCPM3Pos" } : simh'[c] = simh[c]]_vars

\* the result of a command as the host and the processor of the run give it
SimhResult(c) ==
    CASE c = getSIMHVersionCmd -> version
      [] c = getClockZSDOSCmd ->
            << toBCD(simhEnv.time.tm_year % 100), toBCD(simhEnv.time.tm_mon + 1),
               toBCD(simhEnv.time.tm_mday), toBCD(simhEnv.time.tm_hour),
               toBCD(simhEnv.time.tm_min), toBCD(simhEnv.time.tm_sec) >>
      [] c = getClockCPM3Cmd ->
            << simhEnv.days % 256, simhEnv.days \div 256, toBCD(simhEnv.time.tm_hour),
               toBCD(simhEnv.time.tm_min), toBCD(simhEnv.time.tm_sec) >>
      [] c = getBankSelectCmd -> << IF simhEnv.banked THEN simhEnv.bank ELSE 0 >>
      [] c = getCommonCmd -> << simhEnv.common % 256, simhEnv.common \div 256 >>
      [] c = hasBankedMemoryCmd -> << IF simhEnv.banked THEN simhEnv.maxbanks ELSE 0 >>
      [] c = readStopWatchCmd ->
            << simh.stopWatchDelta % 256, simh.stopWatchDelta \div 256 >>
      [] c = getHostOSPathSeparator -> << simhEnv.separator >>
      [] OTHER -> << simh.lastCPMStatus >>

\* the reads made since the command c are the bytes of its result in
\* order, then zeros, and the device is idle once the last byte of the
\* result has been read
SimhInOrder(c) ==
    LET r == SimhResult(c)
        n == Len(simhEv.reads)
    IN  /\ \A j \in 1 .. n : simhEv.reads[j] = IF j <= Len(r) THEN r[j] ELSE 0
        /\ n >= Len(r) => simh.lastCommand = 0

\* C34: for every command that returns a result, the reads that follow it
\* deliver the bytes of the result in order; once the last has been read
\* no command is pending, and a further read gives 0
C34_ResultProduction ==
    simhEv.cmd \in SimhResultCmds => SimhInOrder(simhEv.cmd)

\* so it is for every command but the path separator, get-common being
\* written with its position at 0
SimhResultsInOrder ==
    ( /\ simhEv.cmd \in SimhResultCmds \ { getHostOSPathSeparator }
      /\ simhEv.cmd = getCommonCmd => simhEv.s0.getCommonPos = 0 )
        => SimhInOrder(simhEv.cmd)

\* the path separator is read again and again, the command staying pending
SimhSeparatorStays ==
    (simhEv.cmd = getHostOSPathSeparator /\ simhEv.op = "in")
        => simhEv.result = simhEnv.separator /\ simh.lastCommand = getHostOSPathSeparator

\* get-common written with its position at 1 gives the high byte, then 0
SimhCommonStale ==
    ( /\ simhEv.cmd = getCommonCmd
      /\ simhEv.s0.getCommonPos = 1
      /\ Len(simhEv.reads) = 2 )
        => simhEv.reads = << simhEnv.common \div 256, 0 >>

==========================================================================
